---- MODULE Spec2Model ----
(***************************************************************************)
(* Valuation engine of valuer-assistant (app/data_pipeline.py):            *)
(* the FX rate resolver, the depreciation methods and the method selection *)
(* of get_vehicle_data; the OCR reconciliation, the age arithmetic and the *)
(* demand adjustment of build_user_prompt (app/prompt_template.py).        *)
(*                                                                         *)
(* Units.  Money is an integer number of cents, percentages are integers   *)
(* (retention_percent_used and depreciation_percent_used are in hundredths *)
(* of a percent), the clock is in hours.  round(x, 2) is modelled on exact *)
(* rationals (round half to even); binary floating point error is not      *)
(* modelled.                                                               *)
(***************************************************************************)
EXTENDS Integers, Sequences, FiniteSets, TLC

VARIABLES
    now,        \* wall clock, hours (datetime.utcnow())
    fx_cache,   \* module global _fx_cache: [rates, timestamp]
    lru_memo,   \* the single entry of @lru_cache(maxsize=1) on get_fx_rates
    graph_df,   \* module global graph_df: NoTable, or a sequence of rows
    econ_df,    \* module global econ_df: NoTable, or a sequence of rows
    tie,        \* which of two equidistant rows argsort puts first
    pc,         \* "idle", or "returned" while a result is with the caller
    report,     \* the report dict of the current get_vehicle_data run
    run,        \* what the last operation did (calls made, values returned)
    ocr,        \* the try_multiple_ocr_sources call in progress, or the last
    prompt,     \* the data dict as the last build_user_prompt call left it
    ages,       \* the last get_age_months call: its dates and its result
    pair,       \* two runs of the valuation on reports that differ in the
                \* pricing fields only
    quote,      \* the last calculate_imported_value call on whole amounts
    calls,      \* concurrent get_fx_rates calls: where each one is
    summary     \* the generate_summary request in progress, or the last

vars == <<now, fx_cache, lru_memo, graph_df, econ_df, tie, pc, report, run,
          ocr, prompt, ages, pair, quote, calls, summary>>

\* the state of the valuation engine proper
engine == <<now, fx_cache, lru_memo, graph_df, econ_df, tie, pc, report, run>>

\* the state of the helpers that are checked on their own
helpers == <<ocr, prompt, ages, pair, quote, calls, summary>>

----------------------------------------------------------------------------
(* Bounds of the model *)

MaxClock == 48
\* get_fx_rates calls that run at the same time
MaxCalls == 2
TickHours == 12
\* months that pass while a registration date is followed
MaxMonths == 14

----------------------------------------------------------------------------
(* Encodings of Python values *)

\* None, and a string that float() rejects, in a numeric field of the payload
NoneV == -1
JunkV == -2

\* _fx_cache = {"rates": None, "timestamp": None}; a rate map is modelled by
\* its "KES" entry, which every stored or returned map has
NoRates == 0
NoTimestamp == -1
\* no lru_cache entry yet
NoMemo == 0

\* {"KES": 129.0}
ManualKES == 129
\* timedelta(hours=24)
FreshHours == 24

----------------------------------------------------------------------------
(* FX rate resolver *)

\* what requests.get(...).json() gives for one provider request:
\* "exception" (network error, timeout, body that is not JSON),
\* "nokes" (no "rates" key, or "rates" without "KES"), or a rate map
ProviderResponses ==
    { [kind |-> "exception", KES |-> 0],
      [kind |-> "nokes",     KES |-> 0],
      [kind |-> "ok",        KES |-> 130],
      [kind |-> "ok",        KES |-> 131] }

ProviderOk(resp) == resp.kind = "ok"

\* the provider is not requested
NoResponse == [kind |-> "none", KES |-> 0]

\* the cache test of get_fx_rates
CacheFresh(cache, nowT) ==
    /\ cache.rates # NoRates
    /\ cache.timestamp # NoTimestamp
    /\ (nowT - cache.timestamp) < FreshHours

\* mutant: the secondary provider's success path stores the cache but
\* falls through to the manual constant
get_fx_rates_body_fallthrough(cache, nowT, respA, respB) ==
    IF CacheFresh(cache, nowT)
    THEN [ret |-> cache.rates, cache |-> cache, providers |-> <<>>,
          responses |-> <<>>]
    ELSE IF ProviderOk(respA)
    THEN [ret |-> respA.KES,
          cache |-> [rates |-> respA.KES, timestamp |-> nowT],
          providers |-> <<"A">>, responses |-> <<respA>>]
    ELSE IF ProviderOk(respB)
    THEN [ret |-> ManualKES,
          cache |-> [rates |-> respB.KES, timestamp |-> nowT],
          providers |-> <<"A", "B">>, responses |-> <<respA, respB>>]
    ELSE [ret |-> ManualKES, cache |-> cache, providers |-> <<"A", "B">>,
          responses |-> <<respA, respB>>]

\* mutant: the primary provider's success path replaces the rate map but
\* keeps the old timestamp
get_fx_rates_body_partial(cache, nowT, respA, respB) ==
    IF CacheFresh(cache, nowT)
    THEN [ret |-> cache.rates, cache |-> cache, providers |-> <<>>,
          responses |-> <<>>]
    ELSE IF ProviderOk(respA)
    THEN [ret |-> respA.KES,
          cache |-> [rates |-> respA.KES, timestamp |-> cache.timestamp],
          providers |-> <<"A">>, responses |-> <<respA>>]
    ELSE IF ProviderOk(respB)
    THEN [ret |-> respB.KES,
          cache |-> [rates |-> respB.KES, timestamp |-> nowT],
          providers |-> <<"A", "B">>, responses |-> <<respA, respB>>]
    ELSE [ret |-> ManualKES, cache |-> cache, providers |-> <<"A", "B">>,
          responses |-> <<respA, respB>>]

\* the body of get_fx_rates: the value returned, the new _fx_cache and the
\* provider requests made, in order
get_fx_rates_body(cache, nowT, respA, respB) ==
    IF CacheFresh(cache, nowT)
    THEN [ret |-> cache.rates, cache |-> cache, providers |-> <<>>,
          responses |-> <<>>]
    ELSE IF ProviderOk(respA)
    THEN [ret |-> respA.KES,
          cache |-> [rates |-> respA.KES, timestamp |-> nowT],
          providers |-> <<"A">>, responses |-> <<respA>>]
    ELSE IF ProviderOk(respB)
    THEN [ret |-> respB.KES,
          cache |-> [rates |-> respB.KES, timestamp |-> nowT],
          providers |-> <<"A", "B">>, responses |-> <<respA, respB>>]
    ELSE [ret |-> ManualKES, cache |-> cache, providers |-> <<"A", "B">>,
          responses |-> <<respA, respB>>]

\* lru_cache keeps the value that the body returned
lru_store(b) ==
    [ret |-> b.ret, cache |-> b.cache, providers |-> b.providers,
     responses |-> b.responses, memo |-> b.ret]

\* get_fx_rates as callers see it: the body behind @lru_cache(maxsize=1).
\* The function takes no argument, so the first value it returns is the
\* value of every later call and the body runs once per process.
get_fx_rates(memo, cache, nowT, respA, respB) ==
    IF memo # NoMemo
    THEN [ret |-> memo, cache |-> cache, providers |-> <<>>,
          responses |-> <<>>, memo |-> memo]
    ELSE lru_store(get_fx_rates_body(cache, nowT, respA, respB))

----------------------------------------------------------------------------
(* Reference tables *)

NoTable == <<>>

\* sample content of graph_method.xlsx after the load block: numeric rows,
\* sorted on (AgeMonths, Mileage)
GraphTable ==
    << [AgeMonths |-> 6,  Mileage |-> 5000,
        AgeDepreciation |-> 96, MileageDepreciation |-> 97],
       [AgeMonths |-> 12, Mileage |-> 10000,
        AgeDepreciation |-> 92, MileageDepreciation |-> 95],
       [AgeMonths |-> 24, Mileage |-> 20000,
        AgeDepreciation |-> 85, MileageDepreciation |-> 90] >>

\* sample content of economic_life_chart.xlsx, sorted on AgeYears
EconTable ==
    << [AgeYears |-> 3, DepreciationPercent |-> 70],
       [AgeYears |-> 5, DepreciationPercent |-> 55],
       [AgeYears |-> 9, DepreciationPercent |-> 30] >>

----------------------------------------------------------------------------
(* Age and classification *)

\* a date is <<year, month>> (the day is never read); "" is NoDate
NoDate == <<0, 0>>

\* get_age_months: 0 when strptime rejects the string
get_age_months(reg_date, today) ==
    IF reg_date = NoDate
    THEN 0
    ELSE (today[1] - reg_date[1]) * 12 + (today[2] - reg_date[2])

get_age_years(reg_date, today) == get_age_months(reg_date, today) \div 12

\* get_age_from_production_year: 0 when int(prod_year) raises
get_age_from_production_year(prod_year, today) ==
    IF prod_year = NoneV THEN 0 ELSE today[1] - prod_year

\* (report.get("origin_country") or "").strip().lower() on the sample tokens
strip_lower(country) ==
    CASE country = " KENYA " -> "kenya"
      [] country = "Japan"   -> "japan"
      [] OTHER               -> ""

origin_type_of(country) ==
    IF strip_lower(country) = "kenya" THEN "local" ELSE "imported"

\* vin_info.get("year") or report.get("production_year") or report.get("year")
normalized_prod_year(vin_year, production_year, year) ==
    IF vin_year # NoneV THEN vin_year
    ELSE IF production_year # NoneV THEN production_year
    ELSE year

----------------------------------------------------------------------------
(* Arithmetic *)

Abs(x) == IF x < 0 THEN 0 - x ELSE x

\* round(n / d) for n >= 0, d > 0, half to even, as Python's round does
RoundHalfEven(n, d) ==
    LET q == n \div d
        r == n % d
    IN  IF 2 * r < d THEN q
        ELSE IF 2 * r > d THEN q + 1
        ELSE IF q % 2 = 0 THEN q ELSE q + 1

\* float(x or 0): None and 0 give 0.0; JunkV makes float() raise ValueError
float_or_0(x) == IF x = NoneV THEN 0 ELSE x

\* (column - x).abs().argsort().iat[0]: the row at minimal distance; numpy
\* leaves the order of equal keys to the build, tie is that choice
argsort_first(dist, t) ==
    CHOOSE i \in DOMAIN dist :
        /\ \A j \in DOMAIN dist : dist[i] <= dist[j]
        /\ \A j \in DOMAIN dist :
               dist[j] = dist[i] => IF t = "first" THEN i <= j ELSE i >= j

----------------------------------------------------------------------------
(* Local methods *)

\* mutant: the cap test is >= instead of >
apply_graph_method_ge(base_price, mileage, age_months, answer, df, t) ==
    IF df = NoTable
    THEN [value |-> base_price, prompts |-> 0, lookups |-> 0]
    ELSE
    LET asked == mileage > 10000
        max_mileage_threshold ==
            IF asked /\ answer = "commercial" THEN 20000 ELSE 10000
        age_idx == argsort_first(
            [i \in DOMAIN df |-> Abs(df[i].AgeMonths - age_months)], t)
        age_retention == df[age_idx].AgeDepreciation
        mileage_idx == argsort_first(
            [i \in DOMAIN df |-> Abs(df[i].Mileage - mileage)], t)
        mileage_retention == df[mileage_idx].MileageDepreciation
    IN  [value |->
            IF mileage >= max_mileage_threshold
            THEN RoundHalfEven(base_price * age_retention, 100)
            ELSE RoundHalfEven(
                     base_price * (mileage_retention + age_retention), 200),
         prompts |-> IF asked THEN 1 ELSE 0,
         lookups |-> 1]

\* apply_graph_method: answer is what input() returns when the usage is
\* asked ("eof" when input() raises); value is in the unit of base_price
apply_graph_method(base_price, mileage, age_months, answer, df, t) ==
    IF df = NoTable
    THEN [value |-> base_price, prompts |-> 0, lookups |-> 0]
    ELSE
    LET asked == mileage > 10000
        max_mileage_threshold ==
            IF asked /\ answer = "commercial" THEN 20000 ELSE 10000
        age_idx == argsort_first(
            [i \in DOMAIN df |-> Abs(df[i].AgeMonths - age_months)], t)
        age_retention == df[age_idx].AgeDepreciation
        mileage_idx == argsort_first(
            [i \in DOMAIN df |-> Abs(df[i].Mileage - mileage)], t)
        mileage_retention == df[mileage_idx].MileageDepreciation
    IN  [value |->
            IF mileage > max_mileage_threshold
            THEN RoundHalfEven(base_price * age_retention, 100)
            ELSE RoundHalfEven(
                     base_price * (mileage_retention + age_retention), 200),
         prompts |-> IF asked THEN 1 ELSE 0,
         lookups |-> 1]

\* mutant: without a table nothing is returned
apply_economic_life_zero(base_price, reg_date, today, df, t) ==
    IF df = NoTable
    THEN [raised |-> FALSE, value |-> 0, lookups |-> 0]
    ELSE [raised |-> TRUE, value |-> 0, lookups |-> 1]

\* apply_economic_life: with a loaded table the row is looked up and
\* max(dep_percent), max() of a float, raises TypeError
apply_economic_life(base_price, reg_date, today, df, t) ==
    IF df = NoTable
    THEN [raised |-> FALSE, value |-> base_price, lookups |-> 0]
    ELSE [raised |-> TRUE, value |-> 0, lookups |-> 1]

\* mutant: a vehicle under 3 months gets no value
local_fresh_none(base_price) ==
    [raised |-> FALSE, value |-> 0, branch |-> "fresh",
     prompts |-> 0, graph_calls |-> 0, econ_calls |-> 0]

\* what calculate_local_value returns from each of its three branches:
\* round(base_price, 2) under 3 months
local_fresh(base_price) ==
    [raised |-> FALSE, value |-> base_price, branch |-> "fresh",
     prompts |-> 0, graph_calls |-> 0, econ_calls |-> 0]

local_graph(g) ==
    [raised |-> FALSE, value |-> g.value, branch |-> "graph",
     prompts |-> g.prompts, graph_calls |-> 1, econ_calls |-> 0]

local_econ(e) ==
    [raised |-> e.raised, value |-> e.value, branch |-> "econ",
     prompts |-> 0, graph_calls |-> 0, econ_calls |-> 1]

\* mutant: the three-year boundary is <= 36 instead of < 36
calculate_local_value_le(base_price, mileage, reg_date, today, answer, gdf, edf, t) ==
    IF get_age_months(reg_date, today) < 3
    THEN local_fresh(base_price)
    ELSE IF get_age_months(reg_date, today) <= 36
    THEN local_graph(apply_graph_method(base_price, mileage,
                         get_age_months(reg_date, today), answer, gdf, t))
    ELSE local_econ(apply_economic_life(base_price, reg_date, today, edf, t))

\* calculate_local_value
calculate_local_value(base_price, mileage, reg_date, today, answer, gdf, edf, t) ==
    IF get_age_months(reg_date, today) < 3
    THEN local_fresh(base_price)
    ELSE IF get_age_months(reg_date, today) < 36
    THEN local_graph(apply_graph_method(base_price, mileage,
                         get_age_months(reg_date, today), answer, gdf, t))
    ELSE local_econ(apply_economic_life(base_price, reg_date, today, edf, t))

----------------------------------------------------------------------------
(* Values *)

\* an estimated value: None; an amount in cents; or the imported compound
\* depreciation total * (1 - rate) ** (months / 12.0), kept as its three
\* operands (amount is the total in hundredths of a cent, rate is per mille)
NoValue == [kind |-> "none", amount |-> 0, rate |-> 0, months |-> 0]
Amount(c) == [kind |-> "amount", amount |-> c, rate |-> 0, months |-> 0]
Compound(total100, rate, months) ==
    [kind |-> "compound", amount |-> total100, rate |-> rate,
     months |-> months]

FaceValueMethod == "Face Value Method (manufacture_age >= 14)"
ImportedNewEntry == "Imported New Entry (no depreciation)"
GraphMethod == "Graph Method (<3 years)"
EconomicLifeMethod == "Economic Life Method (>=3 years)"
\* the key depreciation_method is absent from the report
Unset == "unset"

----------------------------------------------------------------------------
(* Imported vehicles *)

\* no call of get_fx_rates
NoFx(memo, cache) ==
    [ret |-> NoRates, cache |-> cache, providers |-> <<>>,
     responses |-> <<>>, memo |-> memo]

\* round(price * rate, 2) with the rate of the map that get_fx_rates gave
converted_with(price, r) ==
    [value |-> price * r.ret, fx_calls |-> 1, fx |-> r]

\* convert_to_kes(price, "USD"), price in cents
convert_to_kes(price, memo, cache, nowT, respA, respB) ==
    IF price = 0
    THEN [value |-> 0, fx_calls |-> 0, fx |-> NoFx(memo, cache)]
    ELSE converted_with(price,
                        get_fx_rates(memo, cache, nowT, respA, respB))

\* mutant: the middle band ends below 20,000
imported_total_lt(conv, duty_kes, profit_margin, mileage, age_months, upto7) ==
    LET total100 == (conv.value + duty_kes) * (100 + profit_margin)
        dep_rate == IF mileage < 10000 THEN 50
                    ELSE IF mileage < 20000 THEN 75
                    ELSE 100
    IN  [raised |-> FALSE,
         value |-> IF upto7 /\ age_months < 3
                   THEN Amount(RoundHalfEven(total100, 100))
                   ELSE Compound(total100, dep_rate, age_months),
         method |-> IF upto7 /\ age_months < 3
                    THEN ImportedNewEntry ELSE Unset,
         fx_calls |-> conv.fx_calls,
         fx |-> conv.fx,
         converted |-> upto7,
         landed |-> conv.value,
         total100 |-> total100]

\* calculate_imported_value from "Add duty and profit margin" on; conv is
\* the landed cost and upto7 is age_years <= 7.  landed and total100 record
\* landed_kes and total_kes (in hundredths of a cent)
imported_total(conv, duty_kes, profit_margin, mileage, age_months, upto7) ==
    LET total100 == (conv.value + duty_kes) * (100 + profit_margin)
        dep_rate == IF mileage < 10000 THEN 50
                    ELSE IF mileage <= 20000 THEN 75
                    ELSE 100
    IN  [raised |-> FALSE,
         value |-> IF upto7 /\ age_months < 3
                   THEN Amount(RoundHalfEven(total100, 100))
                   ELSE Compound(total100, dep_rate, age_months),
         method |-> IF upto7 /\ age_months < 3
                    THEN ImportedNewEntry ELSE Unset,
         fx_calls |-> conv.fx_calls,
         fx |-> conv.fx,
         converted |-> upto7,
         landed |-> conv.value,
         total100 |-> total100]

\* what calculate_imported_value returns when it makes no FX call and
\* computes nothing
imported_quiet(memo, cache) ==
    [raised |-> FALSE, value |-> NoValue, method |-> Unset,
     fx_calls |-> 0, fx |-> NoFx(memo, cache), converted |-> FALSE,
     landed |-> NoneV, total100 |-> NoneV]

\* calculate_imported_value(report); profit_margin is in percent, and
\* age_years = age_months / 12.0, so age_years <= 7 is age_months <= 7 * 12
calculate_imported_value(rep, today, memo, cache, nowT, respA, respB) ==
    LET age_months == get_age_months(rep.registration_date, today)
        manufacture_age_years ==
            IF rep.production_year = NoneV
            THEN NoneV ELSE today[1] - rep.production_year
    IN
    IF rep.duty = JunkV \/ rep.profit_margin = JunkV
       \/ rep.odo_reading = JunkV
    THEN [imported_quiet(memo, cache) EXCEPT !.raised = TRUE]
    ELSE
    IF manufacture_age_years # NoneV /\ manufacture_age_years # 0
       /\ manufacture_age_years >= 14
    THEN IF rep.face_value_average = JunkV
            \/ rep.aftermarket_additions = JunkV
         THEN [imported_quiet(memo, cache) EXCEPT !.raised = TRUE]
         ELSE [imported_quiet(memo, cache) EXCEPT
                 !.method = FaceValueMethod,
                 !.value = Amount(float_or_0(rep.face_value_average)
                                  + float_or_0(rep.aftermarket_additions))]
    ELSE IF rep.base_price = JunkV
    THEN [imported_quiet(memo, cache) EXCEPT !.raised = TRUE]
    ELSE IF float_or_0(rep.base_price) <= 0
    THEN imported_quiet(memo, cache)
    ELSE imported_total(
             IF age_months <= 7 * 12
             THEN convert_to_kes(float_or_0(rep.base_price), memo, cache,
                                 nowT, respA, respB)
             ELSE [value |-> float_or_0(rep.base_price), fx_calls |-> 0,
                   fx |-> NoFx(memo, cache)],
             float_or_0(rep.duty),
             IF rep.profit_margin \in {NoneV, 0}
             THEN 10 ELSE rep.profit_margin,
             float_or_0(rep.odo_reading),
             age_months,
             age_months <= 7 * 12)

\* x as base-1000 digits, lowest first
RECURSIVE limbs(_)
limbs(x) ==
    IF x = 0 THEN << >> ELSE <<x % 1000>> \o limbs(x \div 1000)

\* the number whose base-1000 digits are n
RECURSIVE number(_)
number(n) ==
    IF n = << >> THEN 0 ELSE Head(n) + 1000 * number(Tail(n))

\* n * m + carry on base-1000 digits
RECURSIVE times(_, _, _)
times(n, m, carry) ==
    IF n = << >> THEN limbs(carry)
    ELSE <<(Head(n) * m + carry) % 1000>>
         \o times(Tail(n), m, (Head(n) * m + carry) \div 1000)

\* n * m ^ y on base-1000 digits
RECURSIVE scaled(_, _, _)
scaled(n, m, y) ==
    IF y = 0 THEN n ELSE scaled(times(n, m, 0), m, y - 1)

\* round(n / 1000 ^ y), ties to even
rounded_shift(n, y) ==
    LET digit(i) == IF i >= 1 /\ i <= Len(n) THEN n[i] ELSE 0
        q == number(SubSeq(n, y + 1, Len(n)))
        rest == { i \in 1..(y - 1) : digit(i) # 0 }
        up == \/ digit(y) > 500
              \/ digit(y) = 500 /\ rest # {}
              \/ digit(y) = 500 /\ rest = {} /\ q % 2 = 1
    IN  IF y = 0 THEN number(n) ELSE IF up THEN q + 1 ELSE q

\* mutant: one year of depreciation whatever the age
compound_value_once(total100, rate, years) ==
    rounded_shift(scaled(limbs(total100), 1000 - rate, 1), 1)

\* round(total_kes * ((1 - dep_rate) ** age_years), 2) for a whole number of
\* years, in hundredths; rate is dep_rate in thousandths
compound_value(total100, rate, years) ==
    rounded_shift(scaled(limbs(total100), 1000 - rate, years), years)

----------------------------------------------------------------------------
(* Observations *)

\* the record of one operation: the calls it made and what it returned
NoRun ==
    [op |-> "none",
     fx_calls |-> 0, fx_ret |-> NoRates, providers |-> <<>>,
     responses |-> <<>>,
     origin_type |-> "", prod_age |-> 0, age_months |-> 0,
     raised |-> FALSE, estimated_value |-> NoValue, branch |-> "none",
     graph_calls |-> 0, econ_calls |-> 0, usage |-> <<>>,
     converted |-> FALSE, landed |-> NoneV, total100 |-> NoneV,
     method_writes |-> 0, retention_writes |-> 0, final_writes |-> 0,
     ocr_fetches |-> 0, ch_text |-> << >>, ch_conf |-> 0,
     en_text |-> << >>, en_conf |-> 0]

----------------------------------------------------------------------------
(* OCR reconciliation: try_multiple_ocr_sources *)

\* Texts are sequences of one-character strings.

\* all positions <<i, j, k>> of a block a[i .. i+k-1] = b[j .. j+k-1]
matching_blocks(a, b) ==
    { x \in (1..Len(a)) \X (1..Len(b)) \X (1..Len(a)) :
        /\ x[1] + x[3] - 1 <= Len(a)
        /\ x[2] + x[3] - 1 <= Len(b)
        /\ SubSeq(a, x[1], x[1] + x[3] - 1) = SubSeq(b, x[2], x[2] + x[3] - 1) }

\* SequenceMatcher.find_longest_match: the longest block; of those, the
\* one that starts earliest in a; of those, the one that starts earliest
\* in b (texts are far below the 200 characters where autojunk sets in)
find_longest_match(blocks) ==
    CHOOSE x \in blocks :
        \A y \in blocks :
            \/ x[3] > y[3]
            \/ x[3] = y[3] /\ x[1] < y[1]
            \/ x[3] = y[3] /\ x[1] = y[1] /\ x[2] <= y[2]

RECURSIVE matches(_, _)
RECURSIVE matches_around(_, _, _)

\* the block m, and the matches to its left and to its right
matches_around(a, b, m) ==
    m[3] + matches(SubSeq(a, 1, m[1] - 1), SubSeq(b, 1, m[2] - 1))
         + matches(SubSeq(a, m[1] + m[3], Len(a)), SubSeq(b, m[2] + m[3], Len(b)))

\* sum of the sizes of SequenceMatcher.get_matching_blocks()
matches(a, b) ==
    IF matching_blocks(a, b) = {} THEN 0
    ELSE matches_around(a, b, find_longest_match(matching_blocks(a, b)))

\* round(SequenceMatcher(None, a, b).ratio() * 10); ratio() is 2.0 * M / T
\* and 1.0 when both texts are empty
fuzzy_match(a, b) ==
    IF Len(a) + Len(b) = 0 THEN 10
    ELSE RoundHalfEven(20 * matches(a, b), Len(a) + Len(b))

\* str.upper() on one character
upper(c) == IF c = "a" THEN "A" ELSE IF c = "b" THEN "B" ELSE c

RECURSIVE upper_kept(_)

\* re.sub(r"[^A-Z0-9\-]", "", content.strip().upper())
upper_kept(s) ==
    IF s = << >> THEN << >>
    ELSE IF upper(Head(s)) \in {"A", "B", "C", "7", "-"}
         THEN <<upper(Head(s))>> \o upper_kept(Tail(s))
         ELSE upper_kept(Tail(s))

\* the completion raised: perform_ocr_gpt_vision returns ""
VisionFailed == <<"!">>

\* perform_ocr_gpt_vision
perform_ocr_gpt_vision(content) ==
    IF content = VisionFailed THEN << >> ELSE upper_kept(content)

\* perform_ocr_on_image(image_url): the text, and whether the image was
\* fetched and the vision model asked
perform_ocr_on_image(image_url, fetch, content) ==
    IF image_url = "" THEN [text |-> << >>, confidence |-> 0, fetched |-> FALSE, url |-> image_url]
    ELSE IF fetch # "200" THEN [text |-> << >>, confidence |-> 0, fetched |-> FALSE, url |-> image_url]
    ELSE [text |-> perform_ocr_gpt_vision(content),
          confidence |-> IF perform_ocr_gpt_vision(content) = << >> THEN 0 ELSE 10,
          fetched |-> TRUE, url |-> image_url]

\* longest list of candidate images
MaxImages == 3

\* filter(None, images)
filter_none(images) == SelectSeq(images, LAMBDA u : u # "")

\* if score >= best_score: best_text, best_score = res['text'], score
best_after_ge(o, res, score) ==
    IF score >= o.best_score
    THEN [o EXCEPT !.best_text = res.text, !.best_score = score]
    ELSE o

\* if score > best_score: best_text, best_score = res['text'], score
best_after(o, res, score) ==
    IF score > o.best_score
    THEN [o EXCEPT !.best_text = res.text, !.best_score = score]
    ELSE o

\* one iteration of the loop on the result res of perform_ocr_on_image
loop_body(o, res, score) ==
    [best_after(o, res, score) EXCEPT
        !.op = "loop",
        !.todo = Tail(@),
        !.attempts = Append(@, [url |-> res.url, fetched |-> res.fetched,
                                text |-> res.text, score |-> score])]

\* None where a text is expected (a key of the report whose value is null)
NoText == <<"None">>

\* the outcome of an image fetch that the run never makes
NoScan == [fetch |-> "raised", content |-> VisionFailed]

\* best_score, best_text = 0, ""
ocr_call(images, expected) ==
    [op |-> "called", images |-> images, expected |-> expected,
     todo |-> filter_none(images), attempts |-> << >>,
     best_text |-> << >>, best_score |-> 0]

RECURSIVE ocr_loop(_, _)

\* the for loop of try_multiple_ocr_sources; scans are the outcomes of the
\* fetches it makes, in order
ocr_loop(o, scans) ==
    IF o.todo = << >> THEN o
    ELSE ocr_loop(
             loop_body(o,
                       perform_ocr_on_image(Head(o.todo), Head(scans).fetch,
                                            Head(scans).content),
                       fuzzy_match(o.expected,
                                   perform_ocr_on_image(Head(o.todo),
                                                        Head(scans).fetch,
                                                        Head(scans).content).text)),
             Tail(scans))

\* return best_text, best_score
ocr_result(o) ==
    [raised |-> FALSE, text |-> o.best_text, score |-> o.best_score,
     fetches |-> Len(o.attempts)]

\* try_multiple_ocr_sources as get_vehicle_data calls it.  With expected
\* None, SequenceMatcher(None, None, text).ratio() takes len(None) and
\* raises TypeError on the first image that is tried
try_multiple_ocr_sources(images, expected, scans) ==
    IF expected = NoText /\ filter_none(images) # << >>
    THEN [raised |-> TRUE, text |-> << >>, score |-> 0, fetches |-> 1]
    ELSE ocr_result(ocr_loop(ocr_call(images, expected), scans))

\* ch_text, ch_conf and en_text, en_conf
prelude_both(ch, en) ==
    [raised |-> en.raised, fetches |-> ch.fetches + en.fetches,
     ch_text |-> ch.text, ch_conf |-> ch.score,
     en_text |-> en.text, en_conf |-> en.score]

\* the engine call follows the chassis call unless that one raised
prelude_engine(ch, p, scans) ==
    IF ch.raised
    THEN [raised |-> TRUE, fetches |-> ch.fetches,
          ch_text |-> << >>, ch_conf |-> 0, en_text |-> << >>, en_conf |-> 0]
    ELSE prelude_both(
             ch,
             try_multiple_ocr_sources(<<p.engine_img, p.log_book_img>>,
                                      p.engine_no,
                                      SubSeq(scans, ch.fetches + 1, Len(scans))))

\* the OCR prelude of get_vehicle_data: ch_expected is the value of the key
\* chassis_number_on_frame_img, en_expected the value of engine_no
ocr_prelude(p, scans) ==
    prelude_engine(
        try_multiple_ocr_sources(
            <<p.chassis_number_on_frame_img, p.log_book_img>>,
            IF p.chassis_number_on_frame_img = ""
            THEN << >> ELSE <<"h", "t", "t", "p">>,
            scans),
        p, scans)

----------------------------------------------------------------------------
(* get_vehicle_data *)

\* the report payload as fetch_report_data returns it; the valuation reads
\* these keys.  A payload carries no computed output of an earlier run.
NewReport(p, prod_year) ==
    [present |-> TRUE,
     production_year |-> prod_year,
     registration_date |-> p.registration_date,
     base_price |-> p.base_price,
     odo_reading |-> p.odo_reading,
     engine_no |-> p.engine_no,
     duty |-> p.duty,
     profit_margin |-> p.profit_margin,
     \* report.setdefault(..., 0.0)
     face_value_average |-> float_or_0(p.face_value_average),
     aftermarket_additions |-> float_or_0(p.aftermarket_additions),
     depreciation_method |-> Unset,
     retention_percent_used |-> NoneV,
     depreciation_percent_used |-> NoneV,
     final_depreciated_value |-> NoValue]

\* the outcome of the "Estimated value" try block when nothing is computed
no_estimate(memo, cache) ==
    [caught |-> FALSE, value |-> NoValue, method |-> Unset,
     branch |-> "none", prompts |-> 0, graph_calls |-> 0, econ_calls |-> 0,
     fx_calls |-> 0, fx |-> NoFx(memo, cache), converted |-> FALSE,
     landed |-> NoneV, total100 |-> NoneV]

\* estimated_value = calculate_local_value(...), inside the try block
local_estimate(v, memo, cache) ==
    [no_estimate(memo, cache) EXCEPT
        !.caught = v.raised,
        !.value = IF v.raised THEN NoValue ELSE Amount(v.value),
        !.branch = v.branch,
        !.prompts = v.prompts,
        !.graph_calls = v.graph_calls,
        !.econ_calls = v.econ_calls]

\* estimated_value = calculate_imported_value(report), inside the try block
imported_estimate(v, memo, cache) ==
    [no_estimate(memo, cache) EXCEPT
        !.caught = v.raised,
        !.value = v.value,
        !.method = v.method,
        !.branch = IF v.method = FaceValueMethod THEN "face"
                   ELSE IF v.value = NoValue THEN "none"
                   ELSE "imported",
        !.fx_calls = v.fx_calls,
        !.fx = v.fx,
        !.converted = v.converted,
        !.landed = v.landed,
        !.total100 = v.total100]

\* the "Estimated value" try block of get_vehicle_data; caught says that
\* the except clause ran
estimate_value(rep, origin_type, today, answers, respA, respB, memo, cache, nowT, gdf, edf, t) ==
    IF rep.base_price = JunkV \/ rep.odo_reading = JunkV
    THEN [no_estimate(memo, cache) EXCEPT !.caught = TRUE]
    ELSE
    IF origin_type = "local"
    THEN IF get_age_from_production_year(rep.production_year, today) >= 14
         THEN [no_estimate(memo, cache) EXCEPT !.method = FaceValueMethod]
         ELSE IF float_or_0(rep.base_price) > 0
                 /\ rep.registration_date # NoDate
         THEN local_estimate(
                  calculate_local_value(float_or_0(rep.base_price),
                                        float_or_0(rep.odo_reading),
                                        rep.registration_date, today,
                                        answers[1], gdf, edf, t),
                  memo, cache)
         ELSE no_estimate(memo, cache)
    ELSE imported_estimate(
             calculate_imported_value(rep, today, memo, cache, nowT,
                                      respA, respB),
             memo, cache)

\* the outcome of the diagnostics when they are skipped
no_diagnostics ==
    [raised |-> FALSE, method |-> Unset, retention |-> NoneV,
     prompts |-> 0, graph_calls |-> 0, econ_calls |-> 0]

\* retention_from_graph = apply_graph_method(100.0, mileage, age_months)
graph_diagnostics(g) ==
    [no_diagnostics EXCEPT !.method = GraphMethod,
                           !.retention = g.value,
                           !.prompts = g.prompts,
                           !.graph_calls = 1]

\* the Graph / Economic Life diagnostics of get_vehicle_data; answer is the
\* reply to its usage prompt
diagnostics(rep, origin_type, today, answer, gdf, edf, t) ==
    LET reg_date == rep.registration_date
        age_months == get_age_months(reg_date, today)
    IN
    IF reg_date = NoDate \/ origin_type # "local"
       \/ get_age_from_production_year(rep.production_year, today) >= 14
    THEN no_diagnostics
    ELSE IF rep.odo_reading = JunkV
    THEN [no_diagnostics EXCEPT !.raised = TRUE]
    ELSE
    IF age_months < 36
    THEN IF gdf # NoTable
         THEN graph_diagnostics(
                  apply_graph_method(10000, float_or_0(rep.odo_reading),
                                     age_months, answer, gdf, t))
         ELSE [no_diagnostics EXCEPT !.method = GraphMethod]
    ELSE IF edf # NoTable
         THEN [no_diagnostics EXCEPT
                 !.method = EconomicLifeMethod,
                 !.retention =
                    edf[argsort_first(
                          [i \in DOMAIN edf |->
                              Abs(edf[i].AgeYears
                                  - get_age_years(reg_date, today))], t)
                       ].DepreciationPercent * 100,
                 !.econ_calls = 1]
         ELSE [no_diagnostics EXCEPT !.method = EconomicLifeMethod]

\* the end of get_vehicle_data: final_depreciated_value and the percentages
\* are written and the result is returned, unless the diagnostics raised
finish_run(rep0, origin_type, today, answers, est, diag, pre) ==
    LET base_price == float_or_0(rep0.base_price)
        has_value == ~diag.raised /\ est.value # NoValue
        has_percent == has_value /\ origin_type = "local" /\ base_price # 0
        depreciation_percent ==
            IF has_percent
            THEN RoundHalfEven((base_price - est.value.amount) * 10000,
                               base_price)
            ELSE NoneV
    IN  [report |->
            [rep0 EXCEPT
               !.depreciation_method =
                   IF diag.method # Unset THEN diag.method ELSE est.method,
               !.final_depreciated_value =
                   IF has_value THEN est.value ELSE NoValue,
               !.depreciation_percent_used = depreciation_percent,
               !.retention_percent_used =
                   IF has_percent THEN 10000 - depreciation_percent
                   ELSE diag.retention],
         fx |-> est.fx,
         run |->
            [op |-> "get_vehicle_data",
             fx_calls |-> est.fx_calls,
             fx_ret |-> est.fx.ret,
             providers |-> est.fx.providers,
             responses |-> est.fx.responses,
             origin_type |-> origin_type,
             prod_age |->
                get_age_from_production_year(rep0.production_year, today),
             age_months |-> get_age_months(rep0.registration_date, today),
             raised |-> diag.raised,
             estimated_value |-> est.value,
             branch |-> est.branch,
             graph_calls |-> est.graph_calls + diag.graph_calls,
             econ_calls |-> est.econ_calls + diag.econ_calls,
             usage |-> SubSeq(answers, 1, est.prompts + diag.prompts),
             converted |-> est.converted,
             landed |-> est.landed,
             total100 |-> est.total100,
             method_writes |->
                (IF est.method # Unset THEN 1 ELSE 0)
                + (IF diag.method # Unset THEN 1 ELSE 0),
             retention_writes |->
                (IF diag.retention # NoneV THEN 1 ELSE 0)
                + (IF has_percent THEN 1 ELSE 0),
             final_writes |-> IF has_value THEN 1 ELSE 0,
             ocr_fetches |-> pre.fetches,
             ch_text |-> pre.ch_text, ch_conf |-> pre.ch_conf,
             en_text |-> pre.en_text, en_conf |-> pre.en_conf]]

\* get_vehicle_data after the try block: the diagnostics, then the end
after_estimate(rep0, origin_type, today, answers, est, gdf, edf, t, pre) ==
    finish_run(rep0, origin_type, today, answers, est,
               diagnostics(rep0, origin_type, today,
                           answers[est.prompts + 1], gdf, edf, t),
               pre)

\* get_vehicle_data on the classified report rep0
valuation(rep0, origin_type, today, answers, respA, respB, memo, cache, nowT, gdf, edf, t, pre) ==
    after_estimate(rep0, origin_type, today, answers,
                   estimate_value(rep0, origin_type, today, answers, respA,
                                  respB, memo, cache, nowT, gdf, edf, t),
                   gdf, edf, t, pre)

\* get_vehicle_data from the classification on
classified(p, today, answers, respA, respB, memo, cache, nowT, gdf, edf, t, pre) ==
    valuation(NewReport(p, normalized_prod_year(p.vin_year,
                                                 p.production_year, p.year)),
              origin_type_of(p.origin_country), today, answers,
              respA, respB, memo, cache, nowT, gdf, edf, t, pre)

\* fuzzy_match raised in the OCR prelude: get_vehicle_data ends there, the
\* exception goes to its caller and nothing is valued.  The record keeps
\* the class of the report that was being processed
prelude_raised(p, today, pre, memo, cache) ==
    [report |-> NewReport(p, normalized_prod_year(p.vin_year,
                                                   p.production_year, p.year)),
     fx |-> NoFx(memo, cache),
     run |-> [NoRun EXCEPT
                !.op = "get_vehicle_data",
                !.raised = TRUE,
                !.origin_type = origin_type_of(p.origin_country),
                !.prod_age = get_age_from_production_year(
                                 normalized_prod_year(p.vin_year,
                                                      p.production_year,
                                                      p.year), today),
                !.age_months = get_age_months(p.registration_date, today),
                !.ocr_fetches = pre.fetches]]

\* get_vehicle_data on the fetched report p: the report as the run leaves
\* it, the record of the run and the state of the FX resolver.  scans are
\* the outcomes of the image fetches, in the order they are made
get_vehicle_data(p, today, answers, scans, respA, respB, memo, cache, nowT, gdf, edf, t) ==
    IF ocr_prelude(p, scans).raised
    THEN prelude_raised(p, today, ocr_prelude(p, scans), memo, cache)
    ELSE classified(p, today, answers, respA, respB, memo, cache, nowT,
                    gdf, edf, t, ocr_prelude(p, scans))

----------------------------------------------------------------------------
(* State machine *)

NoReport == [present |-> FALSE]

\* no call of the helper yet
NoOcr == [op |-> "none"]
NoPrompt == [op |-> "none"]
NoAges == [op |-> "none"]
NoPair == [op |-> "none"]
NoQuote == [op |-> "none"]
NoSummary == [op |-> "none"]
\* a get_fx_rates call that has not been made
NoCall == [at |-> "idle", now |-> NoTimestamp, got |-> NoRates, order |-> 0]

\* the module is imported: the cache is empty and the tables are loaded, or
\* both are None when reading either file failed
Init ==
    /\ now = 0
    /\ fx_cache = [rates |-> NoRates, timestamp |-> NoTimestamp]
    /\ lru_memo = NoMemo
    /\ \/ graph_df = GraphTable /\ econ_df = EconTable
          /\ tie \in {"first", "last"}
       \/ graph_df = NoTable /\ econ_df = NoTable /\ tie = "first"
    /\ pc = "idle"
    /\ report = NoReport
    /\ run = NoRun
    /\ ocr = NoOcr
    /\ prompt = NoPrompt
    /\ ages = NoAges
    /\ pair = NoPair
    /\ quote = NoQuote
    /\ calls = [i \in 1..MaxCalls |-> NoCall]
    /\ summary = NoSummary

\* time passes
Tick ==
    /\ now + TickHours <= MaxClock
    /\ now' = now + TickHours
    /\ run' = [NoRun EXCEPT !.op = "tick"]
    /\ UNCHANGED <<fx_cache, lru_memo, graph_df, econ_df, tie, pc, report>>
    /\ UNCHANGED helpers

\* the call of get_fx_rates returned r
RateRead(r) ==
    /\ fx_cache' = r.cache
    /\ lru_memo' = r.memo
    /\ run' = [NoRun EXCEPT !.op = "get_fx_rates",
                            !.fx_calls = 1,
                            !.fx_ret = r.ret,
                            !.providers = r.providers,
                            !.responses = r.responses]

\* generate_summary reads the rate: fx_rate = get_fx_rates().get("KES", 129.0)
GetFxRates ==
    /\ pc = "idle"
    /\ \E respA \in ProviderResponses, respB \in ProviderResponses :
         RateRead(get_fx_rates(lru_memo, fx_cache, now, respA, respB))
    /\ UNCHANGED <<now, graph_df, econ_df, tie, pc, report>>
    /\ UNCHANGED helpers

\* inputs of a run
Todays == { <<2026, 11>> }

\* keys that no statement on the report's path reads are left absent:
\* production_year is read when the VIN gives no year, duty and
\* profit_margin for imported reports, the face value keys for imported
\* reports of manufacture age >= 14
Relevant(p) ==
    LET imported == origin_type_of(p.origin_country) = "imported"
        old == p.vin_year # NoneV
    IN  /\ ~old \/ p.production_year = NoneV
        /\ imported \/ (p.duty = NoneV /\ p.profit_margin = NoneV)
        /\ (imported /\ old) \/ p.face_value_average = NoneV
        /\ p.face_value_average # NoneV \/ p.aftermarket_additions = NoneV

Payloads ==
    { p \in [origin_country : {" KENYA ", "Japan"}, vin_year : {NoneV, 2012},
             production_year : {NoneV, 2013}, year : {NoneV},
             registration_date :
                 { NoDate, <<2026, 9>>, <<2026, 8>>, <<2025, 9>>,
                   <<2023, 11>>, <<2019, 11>>, <<2019, 10>> },
             base_price : {NoneV, JunkV, 0, 100001},
             odo_reading : {JunkV, 8000, 10000, 15000, 20000, 25000},
             duty : {NoneV, JunkV, 150000}, profit_margin : {NoneV, 0, 20},
             face_value_average : {NoneV, 500000},
             aftermarket_additions : {NoneV, 20000},
             chassis_number_on_frame_img : {""},
             log_book_img : {""},
             engine_img : {"engine.jpg"},
             engine_no : {NoText, <<"A", "B">>}] : Relevant(p) }

\* the run on payload p when stdin is at end of file and no provider
\* answers: it shows which inputs the run on p consumes
Probe(p, today) ==
    get_vehicle_data(p, today, <<"eof", "eof">>, <<NoScan, NoScan, NoScan, NoScan>>,
                     NoResponse, NoResponse,
                     lru_memo, fx_cache, now, graph_df, econ_df, tie).run

\* the run leaves its report, its record and the FX resolver's state
Returns(r) ==
    /\ report' = r.report
    /\ run' = r.run
    /\ fx_cache' = r.fx.cache
    /\ lru_memo' = r.fx.memo

\* the run on p; replies to the usage prompts and provider responses are
\* drawn when the run asks for them (probe says which it asks for)
RunOn(p, today, probe) ==
    \E s1 \in (IF probe.ocr_fetches >= 1 /\ ~probe.raised
                THEN [fetch : {"200", "404"}, content : { <<"A", "B">> }] ELSE {NoScan}),
       a1 \in (IF Len(probe.usage) >= 1 THEN {"private", "commercial", "eof"} ELSE {"eof"}),
       a2 \in (IF Len(probe.usage) >= 2 THEN {"private", "commercial", "eof"} ELSE {"eof"}),
       respA \in (IF Len(probe.providers) >= 1
                  THEN ProviderResponses ELSE {NoResponse}) :
    \E respB \in (IF respA # NoResponse /\ ~ProviderOk(respA)
                  THEN ProviderResponses ELSE {NoResponse}) :
        Returns(get_vehicle_data(p, today, <<a1, a2>>,
                                 <<s1, NoScan, NoScan, NoScan>>, respA, respB,
                                 lru_memo, fx_cache, now,
                                 graph_df, econ_df, tie))

\* one run of get_vehicle_data on a fetched, non-empty report
GetVehicleData ==
    /\ pc = "idle"
    /\ \E p \in Payloads, today \in Todays :
          RunOn(p, today, Probe(p, today))
    /\ pc' = "returned"
    /\ UNCHANGED <<now, graph_df, econ_df, tie>>
    /\ UNCHANGED helpers

\* the caller is done with the result; the report dict is dropped
Finish ==
    /\ pc = "returned"
    /\ pc' = "idle"
    /\ report' = NoReport
    /\ run' = [NoRun EXCEPT !.op = "finish"]
    /\ UNCHANGED <<now, fx_cache, lru_memo, graph_df, econ_df, tie>>
    /\ UNCHANGED helpers

Next == GetVehicleData \/ Finish

Spec == Init /\ [][Next]_vars

NextFx == Tick \/ GetFxRates

SpecFx == Init /\ [][NextFx]_vars

----------------------------------------------------------------------------
(* get_fx_rates, several calls at a time *)

\* the calls that have assigned _fx_cache so far
writers == { j \in 1..MaxCalls : calls[j].order > 0 }

\* mutant: the rate map is replaced and the timestamp is left as it was
store_cache_rates_only(cache, rates, nowT) ==
    [rates |-> rates, timestamp |-> cache.timestamp]

\* _fx_cache = {"rates": data["rates"], "timestamp": now}: one assignment
\* of a new dict to the module global
store_cache(cache, rates, nowT) ==
    [rates |-> rates, timestamp |-> nowT]

\* call i returns ret; lru_cache keeps the value of the call that returns
\* first and leaves it alone when a later call brings another
call_returns(i, ret, stored) ==
    /\ lru_memo' = IF lru_memo = NoMemo THEN ret ELSE lru_memo
    /\ calls' = [calls EXCEPT ![i].at = "done",
                              ![i].got = IF stored THEN ret ELSE NoRates,
                              ![i].order = IF stored
                                           THEN 1 + Cardinality(writers)
                                           ELSE 0]

\* a provider answered call i: on a rate map with KES the cache is
\* replaced by the map and the time the call captured when it began
provider_answered(i, resp, otherwise, ret) ==
    IF ProviderOk(resp)
    THEN /\ fx_cache' = store_cache(fx_cache, resp.KES, calls[i].now)
         /\ call_returns(i, resp.KES, TRUE)
    ELSE /\ fx_cache' = fx_cache
         /\ IF otherwise = "done"
            THEN call_returns(i, ret, FALSE)
            ELSE /\ calls' = [calls EXCEPT ![i].at = otherwise]
                 /\ lru_memo' = lru_memo

\* a thread calls get_fx_rates: the lru_cache wrapper answers from its
\* memo, or the body starts with now = datetime.utcnow()
CallGetFxRates(i) ==
    /\ calls[i].at = "idle"
    /\ IF lru_memo # NoMemo
       THEN call_returns(i, lru_memo, FALSE)
       ELSE /\ calls' = [calls EXCEPT ![i].at = "rates", ![i].now = now]
            /\ lru_memo' = lru_memo
    /\ UNCHANGED <<now, fx_cache, graph_df, econ_df, tie, pc, report, run>>
    /\ UNCHANGED <<ocr, prompt, ages, pair, quote, summary>>

\* the cache test, one load of the global _fx_cache at a time:
\* _fx_cache["rates"], _fx_cache["timestamp"], now - _fx_cache["timestamp"],
\* return _fx_cache["rates"]
TestCache(i) ==
    /\ calls[i].at \in {"rates", "timestamp", "age", "hit"}
    /\ IF calls[i].at = "hit"
       THEN call_returns(i, fx_cache.rates, FALSE)
       ELSE /\ lru_memo' = lru_memo
            /\ calls' = [calls EXCEPT ![i].at =
                 IF calls[i].at = "rates"
                 THEN IF fx_cache.rates # NoRates
                      THEN "timestamp" ELSE "primary"
                 ELSE IF calls[i].at = "timestamp"
                 THEN IF fx_cache.timestamp # NoTimestamp
                      THEN "age" ELSE "primary"
                 ELSE IF (calls[i].now - fx_cache.timestamp) < FreshHours
                      THEN "hit" ELSE "primary"]
    /\ UNCHANGED <<now, fx_cache, graph_df, econ_df, tie, pc, report, run>>
    /\ UNCHANGED <<ocr, prompt, ages, pair, quote, summary>>

\* the request to exchangerate.host comes back
RequestPrimary(i) ==
    /\ calls[i].at = "primary"
    /\ \E resp \in ProviderResponses :
         provider_answered(i, resp, "secondary", NoRates)
    /\ UNCHANGED <<now, graph_df, econ_df, tie, pc, report, run>>
    /\ UNCHANGED <<ocr, prompt, ages, pair, quote, summary>>

\* the request to open.er-api.com comes back; when it fails too the call
\* returns {"KES": 129.0}
RequestSecondary(i) ==
    /\ calls[i].at = "secondary"
    /\ \E resp \in ProviderResponses :
         provider_answered(i, resp, "done", ManualKES)
    /\ UNCHANGED <<now, graph_df, econ_df, tie, pc, report, run>>
    /\ UNCHANGED <<ocr, prompt, ages, pair, quote, summary>>

NextFxRace ==
    \/ Tick
    \/ \E i \in 1..MaxCalls : CallGetFxRates(i)
    \/ \E i \in 1..MaxCalls : TestCache(i)
    \/ \E i \in 1..MaxCalls : RequestPrimary(i)
    \/ \E i \in 1..MaxCalls : RequestSecondary(i)

SpecFxRace == Init /\ [][NextFxRace]_vars

----------------------------------------------------------------------------
(* calculate_imported_value on whole amounts *)

\* what one call of calculate_imported_value gave: r is what it returned
\* for report rep, with the depreciated value worked out
quoted(rep, today, r) ==
    [op |-> "quoted",
     report |-> rep,
     age_months |-> get_age_months(rep.registration_date, today),
     raised |-> r.raised,
     fx_calls |-> r.fx_calls,
     total100 |-> r.total100,
     value |-> IF r.value.kind = "compound"
               THEN compound_value(r.value.amount, r.value.rate,
                                   r.value.months \div 12)
               ELSE r.value.amount]

\* an imported report registered a whole number of years ago, more than
\* seven, with its amounts in whole shillings
CalculateImportedValue ==
    /\ quote = NoQuote
    /\ \E year \in 2011..2018, base_price \in {500000, 800000},
          duty \in {NoneV, 150000}, profit_margin \in {NoneV, 10, 20},
          odo_reading \in {8000, 15000, 25000} :
         quote' = quoted(
             [registration_date |-> <<year, 11>>,
              production_year |-> NoneV,
              base_price |-> base_price,
              duty |-> duty,
              profit_margin |-> profit_margin,
              odo_reading |-> odo_reading,
              face_value_average |-> NoneV,
              aftermarket_additions |-> NoneV],
             <<2026, 11>>,
             calculate_imported_value(
                 [registration_date |-> <<year, 11>>,
                  production_year |-> NoneV,
                  base_price |-> base_price,
                  duty |-> duty,
                  profit_margin |-> profit_margin,
                  odo_reading |-> odo_reading,
                  face_value_average |-> NoneV,
                  aftermarket_additions |-> NoneV],
                 <<2026, 11>>, lru_memo, fx_cache, now,
                 NoResponse, NoResponse))
    /\ UNCHANGED engine
    /\ UNCHANGED <<ocr, prompt, ages, pair, calls, summary>>

\* the caller takes the value
QuoteDone ==
    /\ quote # NoQuote
    /\ quote' = NoQuote
    /\ UNCHANGED engine
    /\ UNCHANGED <<ocr, prompt, ages, pair, calls, summary>>

NextQuote == CalculateImportedValue \/ QuoteDone

SpecQuote == Init /\ [][NextQuote]_vars

----------------------------------------------------------------------------
(* build_user_prompt (app/prompt_template.py) *)

\* stdin is closed: input() raises EOFError
EofV == -3
\* the prompt is not reached
NotAsked == -4

\* what the valuer can type at a numeric prompt: nothing, text that float()
\* rejects, a number, or end of file.  In the prompts that loop on
\* ValueError the reply is the first one that the loop accepts.
NumericReplies(n) == {NoneV, JunkV, EofV, n}
LoopReplies(n) == {NoneV, EofV, n}

\* .strip().lower() on the sample replies
level_strip_lower(reply) ==
    CASE reply = " Very High " -> "very high"
      [] OTHER                 -> reply

\* manufacture_age_years of build_user_prompt: 0 when production_year is
\* missing or int() rejects it
manufacture_age_years(d, today) ==
    IF d.production_year \in {NoneV, JunkV}
    THEN 0 ELSE today[1] - d.production_year

\* to_float_or_none: None, "", "Not available", "Not calculated" and text
\* that float() rejects give None
to_float_or_none(x) == IF x \in {NoneV, JunkV} THEN NoneV ELSE x

\* the call starts on the data dict d; today is datetime.today()
prompt_start(d, today) ==
    [given |-> d, data |-> d, today |-> today, raised |-> FALSE,
     asked |-> <<>>,
     basis |-> [num |-> NoneV, den |-> 1], basis_label |-> "unset",
     level_reply |-> "unasked", level |-> "unset"]

\* the base-price prompt is reached (age_years_reg = age_months / 12.0)
asks_base_price(d, today) ==
    /\ manufacture_age_years(d, today) < 14
    /\ d.base_price \in {NoneV, 0}
    /\ \/ d.origin_type = "local"
       \/ /\ d.origin_type = "imported"
          /\ get_age_months(d.registration_date, today) <= 14 * 12

\* data["base_price"] = float(input(...) or 0)
prompt_base_price(f, today, reply) ==
    IF f.raised \/ ~asks_base_price(f.data, today) THEN f
    ELSE IF reply \in {JunkV, EofV}
    THEN [f EXCEPT !.raised = TRUE, !.asked = Append(@, "base_price")]
    ELSE [f EXCEPT !.data.base_price = float_or_0(reply),
                   !.asked = Append(@, "base_price")]

\* the duty prompt is reached
asks_duty(f, today) ==
    /\ ~f.raised
    /\ f.data.origin_type = "imported"
    /\ manufacture_age_years(f.data, today) < 14
    /\ f.data.duty = NoneV

\* data["duty"] = float(duty_input) if duty_input.strip() else 0.0
prompt_duty(f, today, reply) ==
    IF ~asks_duty(f, today) THEN f
    ELSE IF reply = EofV
    THEN [f EXCEPT !.raised = TRUE, !.asked = Append(@, "duty")]
    ELSE [f EXCEPT !.data.duty = float_or_0(reply),
                   !.asked = Append(@, "duty")]

\* the profit-margin prompt is reached
asks_profit_margin(f, today) ==
    /\ ~f.raised
    /\ f.data.origin_type = "imported"
    /\ manufacture_age_years(f.data, today) < 14
    /\ f.data.profit_margin = NoneV

\* data["profit_margin"] = float(pm_input) if pm_input.strip() else 0.10
\* (in percent)
prompt_profit_margin(f, today, reply) ==
    IF ~asks_profit_margin(f, today) THEN f
    ELSE IF reply = EofV
    THEN [f EXCEPT !.raised = TRUE, !.asked = Append(@, "profit_margin")]
    ELSE [f EXCEPT !.data.profit_margin =
                       IF reply = NoneV THEN 10 ELSE reply,
                   !.asked = Append(@, "profit_margin")]

\* the face-value prompts are reached
asks_face_value(f, today) ==
    ~f.raised /\ manufacture_age_years(f.data, today) >= 14

\* data["face_value_average"] = float(input(...) or 0), or 0.0 under 14
prompt_face_value_average(f, today, reply) ==
    IF f.raised THEN f
    ELSE IF ~asks_face_value(f, today)
    THEN [f EXCEPT !.data.face_value_average = 0,
                   !.data.aftermarket_additions = 0]
    ELSE IF reply \in {JunkV, EofV}
    THEN [f EXCEPT !.raised = TRUE,
                   !.asked = Append(@, "face_value_average")]
    ELSE [f EXCEPT !.data.face_value_average = float_or_0(reply),
                   !.asked = Append(@, "face_value_average")]

\* data["aftermarket_additions"] = float(input(...) or 0)
prompt_aftermarket_additions(f, today, reply) ==
    IF ~asks_face_value(f, today) THEN f
    ELSE IF reply \in {JunkV, EofV}
    THEN [f EXCEPT !.raised = TRUE,
                   !.asked = Append(@, "aftermarket_additions")]
    ELSE [f EXCEPT !.data.aftermarket_additions = float_or_0(reply),
                   !.asked = Append(@, "aftermarket_additions")]

\* the basis b is kept for the demand block
with_basis(f, b) ==
    [f EXCEPT !.basis = [num |-> b.num, den |-> b.den],
              !.basis_label = b.label]

\* apply_percent_adjustment: value + value * (pct / 100.0), on num / den
apply_percent_adjustment(b, pct) ==
    [num |-> b.num * (100 + pct), den |-> b.den * 100]

\* the demand keys are written: both values are rounded to 2 decimals
adjusted(f, pct) ==
    [f EXCEPT !.data.demand_level = f.level,
              !.data.demand_adjust_percent = pct,
              !.data.high_demand = f.level \in {"high", "very high"},
              !.data.value_before_demand =
                  RoundHalfEven(f.basis.num, f.basis.den),
              !.data.value_after_demand =
                  RoundHalfEven(apply_percent_adjustment(f.basis, pct).num,
                                apply_percent_adjustment(f.basis, pct).den),
              !.asked = IF f.level \in {"high", "very high"}
                        THEN Append(@, "demand_adjust_percent") ELSE @]

FaceValueBasis == "face-value base amount"
FinalValueBasis == "final depreciated value"
RetentionBasis == "base_price x (retention_percent_used / 100)"
NoBasis == "Not available"

\* mutant: the retention basis is taken before the final depreciated value
value_before_demand_swapped(d, today) ==
    IF manufacture_age_years(d, today) >= 14
    THEN [num |-> d.face_value_average + d.aftermarket_additions,
          den |-> 1, label |-> FaceValueBasis]
    ELSE IF to_float_or_none(d.base_price) > 0
            /\ to_float_or_none(d.retention_percent_used) > 0
    THEN [num |-> d.base_price * d.retention_percent_used,
          den |-> 10000, label |-> RetentionBasis]
    ELSE IF to_float_or_none(d.final_depreciated_value) > 0
    THEN [num |-> d.final_depreciated_value, den |-> 1,
          label |-> FinalValueBasis]
    ELSE [num |-> NoneV, den |-> 1, label |-> NoBasis]

\* value_before_demand and basis_label, before rounding: the value is
\* num / den cents (retention_percent_used is in hundredths of a percent)
value_before_demand(d, today) ==
    IF manufacture_age_years(d, today) >= 14
    THEN [num |-> d.face_value_average + d.aftermarket_additions,
          den |-> 1, label |-> FaceValueBasis]
    ELSE IF to_float_or_none(d.final_depreciated_value) > 0
    THEN [num |-> d.final_depreciated_value, den |-> 1,
          label |-> FinalValueBasis]
    ELSE IF to_float_or_none(d.base_price) > 0
            /\ to_float_or_none(d.retention_percent_used) > 0
    THEN [num |-> d.base_price * d.retention_percent_used,
          den |-> 10000, label |-> RetentionBasis]
    ELSE [num |-> NoneV, den |-> 1, label |-> NoBasis]

\* the "Universal demand adjustment" block up to the basis
demand_basis(f, today) ==
    IF f.raised THEN f
    ELSE with_basis(f, value_before_demand(f.data, today))

\* the demand prompts are reached
asks_demand(f) == ~f.raised /\ f.basis.num # NoneV

\* level of prompt_demand_level_and_percent: an unrecognised reply is "low"
read_level(f, reply) ==
    IF ~asks_demand(f) THEN f
    ELSE IF reply = "eof"
    THEN [f EXCEPT !.raised = TRUE, !.asked = Append(@, "demand_level")]
    ELSE [f EXCEPT !.level_reply = reply,
                   !.level =
                      IF level_strip_lower(reply)
                            \in {"low", "high", "very high"}
                      THEN level_strip_lower(reply) ELSE "low",
                   !.asked = Append(@, "demand_level")]

\* the percentage prompt is reached
asks_percent(f) == asks_demand(f) /\ f.level \in {"high", "very high"}

\* mutant: the percentage supplied in the data is kept when the level is low
apply_demand_keep(f, reply) ==
    IF f.raised THEN f
    ELSE IF f.basis.num = NoneV
    THEN [f EXCEPT !.data.demand_level = "low",
                   !.data.demand_adjust_percent = 0,
                   !.data.high_demand = FALSE,
                   !.data.value_before_demand = NoneV,
                   !.data.value_after_demand = NoneV]
    ELSE IF asks_percent(f) /\ reply = EofV
    THEN [f EXCEPT !.raised = TRUE,
                   !.asked = Append(@, "demand_adjust_percent")]
    ELSE adjusted(f, IF asks_percent(f) THEN float_or_0(reply)
                     ELSE float_or_0(f.given.demand_adjust_percent))

\* pct of prompt_demand_level_and_percent (in percent) and the block that
\* writes the demand keys
apply_demand(f, reply) ==
    IF f.raised THEN f
    ELSE IF f.basis.num = NoneV
    THEN [f EXCEPT !.data.demand_level = "low",
                   !.data.demand_adjust_percent = 0,
                   !.data.high_demand = FALSE,
                   !.data.value_before_demand = NoneV,
                   !.data.value_after_demand = NoneV]
    ELSE IF asks_percent(f) /\ reply = EofV
    THEN [f EXCEPT !.raised = TRUE,
                   !.asked = Append(@, "demand_adjust_percent")]
    ELSE adjusted(f, IF asks_percent(f) THEN float_or_0(reply) ELSE 0)

FaceValueReply == 70000
AdditionsReply == 2000
PercentReply == 5

\* the data dicts given to build_user_prompt: override_data, or the result
\* of get_vehicle_data
PromptData ==
    [origin_type : {"local", "imported"},
     registration_date : { <<2025, 9>>, <<2010, 1>> },
     production_year : {NoneV, 2012, 2013},
     base_price : {NoneV, JunkV, 1001},
     duty : {NoneV, 150},
     profit_margin : {NoneV, 20},
     face_value_average : {NoneV, 60000},
     aftermarket_additions : {NoneV},
     final_depreciated_value : {NoneV, 0, 96501},
     retention_percent_used : {NoneV, 9650},
     demand_level : {"unset"},
     demand_adjust_percent : {NoneV, 7},
     high_demand : {FALSE},
     value_before_demand : {NoneV},
     value_after_demand : {NoneV}]

\* the call is over: the data dict is left as the prompts made it
Confirmed(f) ==
    prompt' = [op |-> "build_user_prompt", given |-> f.given,
               today |-> f.today,
               data |-> f.data, raised |-> f.raised, asked |-> f.asked,
               basis_label |-> f.basis_label,
               level_reply |-> f.level_reply, level |-> f.level]

AskPercent(f) ==
    \E r \in (IF asks_percent(f)
              THEN LoopReplies(PercentReply) ELSE {NotAsked}) :
        Confirmed(apply_demand(f, r))

AskLevel(f) ==
    \E r \in (IF asks_demand(f)
              THEN {"low", "high", " Very High ", "medium", "", "eof"}
              ELSE {"unasked"}) :
        AskPercent(read_level(f, r))

AskAdditions(f, today) ==
    \E r \in (IF asks_face_value(f, today)
              THEN NumericReplies(AdditionsReply) ELSE {NotAsked}) :
        AskLevel(demand_basis(prompt_aftermarket_additions(f, today, r),
                              today))

AskFaceValue(f, today) ==
    \E r \in (IF asks_face_value(f, today)
              THEN NumericReplies(FaceValueReply) ELSE {NotAsked}) :
        AskAdditions(prompt_face_value_average(f, today, r), today)

AskProfitMargin(f, today) ==
    \E r \in (IF asks_profit_margin(f, today)
              THEN LoopReplies(20) ELSE {NotAsked}) :
        AskFaceValue(prompt_profit_margin(f, today, r), today)

AskDuty(f, today) ==
    \E r \in (IF asks_duty(f, today)
              THEN LoopReplies(150) ELSE {NotAsked}) :
        AskProfitMargin(prompt_duty(f, today, r), today)

AskBasePrice(f, today) ==
    \E r \in (IF asks_base_price(f.data, today)
              THEN NumericReplies(1001) ELSE {NotAsked}) :
        AskDuty(prompt_base_price(f, today, r), today)

\* one call of build_user_prompt; each reply is drawn when its prompt is
\* reached
BuildUserPrompt ==
    /\ prompt = NoPrompt
    /\ \E d \in PromptData, today \in Todays :
          AskBasePrice(prompt_start(d, today), today)
    /\ UNCHANGED engine
    /\ UNCHANGED <<ocr, ages, pair, quote, calls, summary>>

\* generate_summary is done with the data dict
PromptDone ==
    /\ prompt # NoPrompt
    /\ prompt' = NoPrompt
    /\ UNCHANGED engine
    /\ UNCHANGED <<ocr, ages, pair, quote, calls, summary>>

NextPrompt == BuildUserPrompt \/ PromptDone

SpecPrompt == Init /\ [][NextPrompt]_vars

----------------------------------------------------------------------------
(* get_age_months over time *)

\* the month after <<year, month>>
next_month(d) == IF d[2] = 12 THEN <<d[1] + 1, 1>> ELSE <<d[1], d[2] + 1>>

\* a report with a registration date comes in
Register ==
    /\ ages = NoAges
    /\ \E reg \in {NoDate} \cup { <<y, m>> : y \in {2025, 2026, 2027}, m \in 1..12 } :
          ages' = [op |-> "registered", reg_date |-> reg,
                   today |-> <<2026, 6>>, advanced |-> 0,
                   called |-> FALSE, age_months |-> 0]
    /\ UNCHANGED engine
    /\ UNCHANGED <<ocr, prompt, pair, quote, calls, summary>>

\* a month passes
NextMonth ==
    /\ ages # NoAges
    /\ ages.advanced < MaxMonths
    /\ ages' = [ages EXCEPT !.op = "next_month",
                            !.today = next_month(@),
                            !.advanced = @ + 1]
    /\ UNCHANGED engine
    /\ UNCHANGED <<ocr, prompt, pair, quote, calls, summary>>

\* get_age_months(reg_date) is called
GetAgeMonths ==
    /\ ages # NoAges
    /\ ages' = [ages EXCEPT
                  !.op = "get_age_months",
                  !.called = TRUE,
                  !.age_months = get_age_months(ages.reg_date, ages.today)]
    /\ UNCHANGED engine
    /\ UNCHANGED <<ocr, prompt, pair, quote, calls, summary>>

NextAge == Register \/ NextMonth \/ GetAgeMonths

SpecAge == Init /\ [][NextAge]_vars

----------------------------------------------------------------------------
(* try_multiple_ocr_sources, one image at a time *)

\* try_multiple_ocr_sources(images, token, expected, label) is called
TryMultipleOcrSources ==
    /\ ocr = NoOcr
    /\ \E images \in UNION { [1..n -> {"", "frame.jpg", "logbook.jpg"}] :
                               n \in 0..MaxImages },
          expected \in { << >>, <<"A", "B">> } :
          ocr' = [op |-> "called", images |-> images, expected |-> expected,
                  todo |-> filter_none(images), attempts |-> << >>,
                  best_text |-> << >>, best_score |-> 0]
    /\ UNCHANGED engine
    /\ UNCHANGED <<prompt, ages, pair, quote, calls, summary>>

\* the loop takes the next URL: fetch, OCR, score, compare
PerformOcrOnImage ==
    /\ ocr # NoOcr
    /\ ocr.op \in {"called", "loop"}
    /\ ocr.todo # << >>
    /\ \E fetch \in {"200", "404", "raised"},
          content \in { VisionFailed, <<"A", "B">>, <<"a", " ", "b">>,
                        <<"A">>, <<"B">>, <<"C", "7">>, <<" ">>,
                        <<"B", "A">> } :
          ocr' = loop_body(ocr, perform_ocr_on_image(Head(ocr.todo), fetch, content),
                           fuzzy_match(ocr.expected, perform_ocr_on_image(Head(ocr.todo), fetch, content).text))
    /\ UNCHANGED engine
    /\ UNCHANGED <<prompt, ages, pair, quote, calls, summary>>

\* the loop is over: return best_text, best_score
OcrReturn ==
    /\ ocr # NoOcr
    /\ ocr.op \in {"called", "loop"}
    /\ ocr.todo = << >>
    /\ ocr' = [ocr EXCEPT !.op = "returned"]
    /\ UNCHANGED engine
    /\ UNCHANGED <<prompt, ages, pair, quote, calls, summary>>

\* the caller has taken the result
OcrDone ==
    /\ ocr # NoOcr
    /\ ocr.op = "returned"
    /\ ocr' = NoOcr
    /\ UNCHANGED engine
    /\ UNCHANGED <<prompt, ages, pair, quote, calls, summary>>

NextOcr == TryMultipleOcrSources \/ PerformOcrOnImage \/ OcrReturn \/ OcrDone

SpecOcr == Init /\ [][NextOcr]_vars

----------------------------------------------------------------------------
(* Two valuations of reports that differ in the pricing fields only *)

\* build_user_prompt(data) with the replies r typed at the prompts it
\* reaches
build_user_prompt(d, today, r) ==
    apply_demand(
        read_level(
            demand_basis(
                prompt_aftermarket_additions(
                    prompt_face_value_average(
                        prompt_profit_margin(
                            prompt_duty(
                                prompt_base_price(prompt_start(d, today),
                                                  today, r.base_price),
                                today, r.duty),
                            today, r.profit_margin),
                        today, r.face_value_average),
                    today, r.aftermarket_additions),
                today),
            r.demand_level),
        r.demand_adjust_percent)

\* report.get("final_depreciated_value", ...) of a face-value run: a number
\* of cents, or None
returned_value(v) ==
    CASE v.kind = "none"   -> NoneV
      [] v.kind = "amount" -> v.amount

\* the dict that get_vehicle_data returns, as build_user_prompt reads it:
\* it has no base_price, duty, profit_margin or face-value key
returned_data(res) ==
    [origin_type |-> res.run.origin_type,
     registration_date |-> res.report.registration_date,
     production_year |-> res.report.production_year,
     base_price |-> NoneV,
     duty |-> NoneV,
     profit_margin |-> NoneV,
     face_value_average |-> NoneV,
     aftermarket_additions |-> NoneV,
     final_depreciated_value |->
         returned_value(res.report.final_depreciated_value),
     retention_percent_used |-> res.report.retention_percent_used,
     demand_level |-> "unset",
     demand_adjust_percent |-> NoneV,
     high_demand |-> FALSE,
     value_before_demand |-> NoneV,
     value_after_demand |-> NoneV]

\* reports of manufacture age >= 14 (the VIN year is 2012)
OldPayloads ==
    [origin_country : {" KENYA ", "Japan"}, vin_year : {2012},
     production_year : {NoneV}, year : {NoneV},
     registration_date : {NoDate, <<2019, 10>>},
     base_price : {NoneV, JunkV, 0, 100001}, odo_reading : {8000},
     duty : {NoneV, JunkV, 150000}, profit_margin : {NoneV, 0, 20},
     face_value_average : {NoneV, 500000},
     aftermarket_additions : {NoneV, 20000},
     chassis_number_on_frame_img : {""},
     log_book_img : {""},
     engine_img : {""}, engine_no : { <<"A", "B">> }]

\* get_vehicle_data(report_id) on each report of the pair; each run starts
\* from the same state of the process, with stdin at end of file and no
\* provider answering
both_valued(p, q, today) ==
    [op |-> "valued",
     payloads |-> <<p, q>>,
     today |-> today,
     results |->
        << get_vehicle_data(p, today, <<"eof", "eof">>,
                            <<NoScan, NoScan, NoScan, NoScan>>, NoResponse,
                            NoResponse, lru_memo, fx_cache, now,
                            graph_df, econ_df, tie),
           get_vehicle_data(q, today, <<"eof", "eof">>,
                            <<NoScan, NoScan, NoScan, NoScan>>, NoResponse,
                            NoResponse, lru_memo, fx_cache, now,
                            graph_df, econ_df, tie) >>,
     prompts |-> <<NoPrompt, NoPrompt>>]

\* generate_summary on two reports: data = get_vehicle_data(report_id)
ValuePair ==
    /\ pair = NoPair
    /\ \E p \in OldPayloads, q \in OldPayloads, today \in Todays :
          /\ q = [p EXCEPT !.base_price = q.base_price,
                           !.duty = q.duty,
                           !.profit_margin = q.profit_margin]
          /\ pair' = both_valued(p, q, today)
    /\ UNCHANGED engine
    /\ UNCHANGED <<ocr, prompt, ages, quote, calls, summary>>

\* generate_summary on two reports: build_user_prompt(data), the valuer
\* typing the same replies in both calls
PromptPair ==
    /\ pair # NoPair
    /\ pair.op = "valued"
    /\ \E r \in [base_price : {NotAsked}, duty : {NotAsked},
                  profit_margin : {NotAsked},
                  face_value_average : {NoneV, EofV, FaceValueReply},
                  aftermarket_additions : {NoneV, AdditionsReply},
                  demand_level : {"low", "high"},
                  demand_adjust_percent : {PercentReply}] :
          pair' = [pair EXCEPT
                     !.op = "prompted",
                     !.prompts =
                        << build_user_prompt(returned_data(pair.results[1]),
                                             pair.today, r),
                           build_user_prompt(returned_data(pair.results[2]),
                                             pair.today, r) >>]
    /\ UNCHANGED engine
    /\ UNCHANGED <<ocr, prompt, ages, quote, calls, summary>>

\* both summaries are done
PairDone ==
    /\ pair # NoPair
    /\ pair.op = "prompted"
    /\ pair' = NoPair
    /\ UNCHANGED engine
    /\ UNCHANGED <<ocr, prompt, ages, quote, calls, summary>>

NextPair == ValuePair \/ PromptPair \/ PairDone

SpecPair == Init /\ [][NextPair]_vars

----------------------------------------------------------------------------
(* generate_summary (app/gpt_client.py) *)

\* reports fetched for a summary: the run on them raises nothing and its
\* value, if any, is an amount
SummaryPayloads ==
    { p \in Payloads :
        /\ p.engine_no # NoText
        /\ p.odo_reading = 8000
        /\ p.base_price \in {NoneV, 100001}
        /\ p.duty = NoneV /\ p.profit_margin = NoneV
        /\ p.face_value_average = NoneV
        /\ \/ origin_type_of(p.origin_country) = "local"
           \/ p.registration_date \in {NoDate, <<2026, 9>>} }

\* override_data of a request: a non-empty dict of the caller's making
OverrideData ==
    { d \in PromptData :
        /\ d.base_price # JunkV
        /\ d.registration_date = <<2025, 9>>
        /\ d.production_year # 2013
        /\ d.duty = NoneV /\ d.profit_margin = NoneV
        /\ d.face_value_average = NoneV
        /\ d.demand_adjust_percent = NoneV }

\* generate_summary has its data dict: from is "override" or "report", and
\* valued says whether get_vehicle_data (classification, then the
\* depreciation engine) ran on it in this request
summary_data(from, data, today, valued) ==
    [at |-> "data", from |-> from, data |-> data, today |-> today,
     classified |-> valued, depreciated |-> valued,
     fx_rate |-> NoRates, prompt |-> NoPrompt, text |-> "none"]

\* data = get_vehicle_data(report_id) came back as res
summary_fetched(res, today) ==
    /\ Returns(res)
    /\ summary' =
         IF res.run.raised
         THEN [summary_data("report", NoReport, today, FALSE)
                 EXCEPT !.at = "returned", !.text = "failed"]
         ELSE summary_data("report", returned_data(res), today, TRUE)

\* data = override_data if override_data else get_vehicle_data(report_id),
\* and "if not data: return"
GenerateSummary ==
    /\ summary = NoSummary
    /\ pc = "idle"
    /\ \/ /\ \E d \in OverrideData, today \in Todays :
               summary' = summary_data("override", d, today, FALSE)
          /\ UNCHANGED <<fx_cache, lru_memo, report, run>>
       \/ \E p \in SummaryPayloads, today \in Todays :
            summary_fetched(
                get_vehicle_data(p, today, <<"eof", "eof">>,
                                 <<NoScan, NoScan, NoScan, NoScan>>,
                                 NoResponse, NoResponse, lru_memo, fx_cache,
                                 now, graph_df, econ_df, tie),
                today)
       \/ /\ \E today \in Todays :
               summary' = [summary_data("report", NoReport, today, FALSE)
                             EXCEPT !.at = "returned", !.text = "no data"]
          /\ UNCHANGED <<fx_cache, lru_memo, report, run>>
    /\ UNCHANGED <<now, graph_df, econ_df, tie, pc>>
    /\ UNCHANGED <<ocr, prompt, ages, pair, quote, calls>>

\* fx_rate = get_fx_rates().get("KES", 129.0) gave fx, and
\* build_user_prompt(data) gave f; the text goes to the language model and
\* its answer is returned
summary_prompted(fx, f) ==
    /\ fx_cache' = fx.cache
    /\ lru_memo' = fx.memo
    /\ summary' = [summary EXCEPT !.at = "returned",
                                  !.fx_rate = fx.ret,
                                  !.prompt = f,
                                  !.text = IF f.raised
                                           THEN "failed" ELSE "summary"]

\* the rest of generate_summary
SummaryPrompt ==
    /\ summary # NoSummary
    /\ summary.at = "data"
    /\ \E respA \in ProviderResponses, respB \in ProviderResponses,
          r \in [base_price : {NoneV, 1001}, duty : {NoneV},
                 profit_margin : {NoneV},
                 face_value_average : {FaceValueReply},
                 aftermarket_additions : {AdditionsReply},
                 demand_level : {"low", "high"},
                 demand_adjust_percent : {PercentReply}] :
         summary_prompted(
             get_fx_rates(lru_memo, fx_cache, now, respA, respB),
             build_user_prompt(summary.data, summary.today, r))
    /\ UNCHANGED <<now, graph_df, econ_df, tie, pc, report, run>>
    /\ UNCHANGED <<ocr, prompt, ages, pair, quote, calls>>

\* the request is answered; the report dict is dropped
SummaryDone ==
    /\ summary # NoSummary
    /\ summary.at = "returned"
    /\ summary' = NoSummary
    /\ report' = NoReport
    /\ run' = [NoRun EXCEPT !.op = "finish"]
    /\ UNCHANGED <<now, fx_cache, lru_memo, graph_df, econ_df, tie, pc>>
    /\ UNCHANGED <<ocr, prompt, ages, pair, quote, calls>>

NextSummary == GenerateSummary \/ SummaryPrompt \/ SummaryDone

SpecSummary == Init /\ [][NextSummary]_vars

----------------------------------------------------------------------------
(* FX rate resolver: properties *)

\* the step is a call of get_fx_rates (run' is the record of that call)
FxCallStep == run'.fx_calls = 1

\* C2: whenever a get_fx_rates call returned the manual constant map
\* because both providers failed, the next get_fx_rates call requests the
\* live providers again.
C2_FallbackNeverCached ==
    [][ ( /\ run.fx_calls = 1
          /\ run.providers = <<"A", "B">>
          /\ run.fx_ret = ManualKES
          /\ FxCallStep )
        => run'.providers # <<>> ]_vars

\* C3: a get_fx_rates call made when the last successful fetch is 24 hours
\* old or older does not return without requesting Provider A first.
C3_StaleCacheRefetched ==
    [][ ( /\ FxCallStep
          /\ fx_cache.timestamp # NoTimestamp
          /\ now - fx_cache.timestamp >= FreshHours )
        => ( /\ run'.providers # <<>>
             /\ Head(run'.providers) = "A" ) ]_vars

\* C4: a get_fx_rates call made less than 24 hours after a successful
\* provider fetch returns exactly the rate map stored by that fetch and
\* requests neither provider.
C4_FreshCacheHit ==
    [][ ( /\ FxCallStep
          /\ fx_cache.timestamp # NoTimestamp
          /\ now - fx_cache.timestamp < FreshHours )
        => ( /\ run'.fx_ret = fx_cache.rates
             /\ run'.providers = <<>> ) ]_vars

\* C4 witness: a call made 12 hours after the fetch was served from the cache
C4_Witness ==
    /\ run.op = "get_fx_rates"
    /\ fx_cache.timestamp # NoTimestamp
    /\ now - fx_cache.timestamp = TickHours
    /\ now - fx_cache.timestamp < FreshHours
    /\ run.fx_ret = fx_cache.rates
    /\ run.providers = <<>>

\* C5: on a cache miss Provider A is requested first; Provider B is
\* requested if and only if Provider A failed; the manual constant map is
\* returned if and only if both providers failed.
C5_FallbackChain ==
    [][ ( /\ FxCallStep
          /\ ~CacheFresh(fx_cache, now) )
        => ( /\ run'.providers # <<>>
             /\ Head(run'.providers) = "A"
             /\ (Len(run'.providers) = 2) <=> ~ProviderOk(run'.responses[1])
             /\ Len(run'.providers) = 2 => run'.providers[2] = "B"
             /\ (run'.fx_ret = ManualKES)
                  <=> ( /\ Len(run'.responses) = 2
                        /\ ~ProviderOk(run'.responses[1])
                        /\ ~ProviderOk(run'.responses[2]) ) ) ]_vars

\* C6: a get_fx_rates call either replaces the cache's rate map and
\* timestamp together with the map of one successful provider response and
\* the time of the call, or leaves both fields as they were; a call that
\* returns the manual constant leaves the cache as it was.
C6_CacheFrame ==
    [][ FxCallStep
        => ( /\ \/ fx_cache' = fx_cache
                \/ \E i \in DOMAIN run'.responses :
                      /\ ProviderOk(run'.responses[i])
                      /\ fx_cache' = [rates |-> run'.responses[i].KES,
                                      timestamp |-> now]
             /\ ( \/ run'.fx_ret = ManualKES
                  \/ \A i \in DOMAIN run'.responses :
                        ~ProviderOk(run'.responses[i]) )
                => fx_cache' = fx_cache ) ]_vars

\* C6 witness: Provider A failed and the call stored Provider B's map with
\* the time of the call
C6_Witness ==
    /\ run.op = "get_fx_rates"
    /\ run.providers = <<"A", "B">>
    /\ ProviderOk(run.responses[2])
    /\ now > 0
    /\ fx_cache = [rates |-> run.responses[2].KES, timestamp |-> now]

----------------------------------------------------------------------------
(* Valuation: properties *)

\* a run of get_vehicle_data has returned its result record
Returned == pc = "returned" /\ run.op = "get_vehicle_data" /\ ~run.raised

\* every numeric key of the payload is absent or a number
NumericPayload ==
    /\ report.base_price # JunkV
    /\ report.odo_reading # JunkV
    /\ report.duty # JunkV
    /\ report.profit_margin # JunkV

\* row i of the graph table is at minimal distance on the age axis
NearestAgeRow(i, age_months) ==
    \A k \in DOMAIN graph_df :
        Abs(graph_df[i].AgeMonths - age_months)
            <= Abs(graph_df[k].AgeMonths - age_months)

\* row j of the graph table is at minimal distance on the mileage axis
NearestMileageRow(j, mileage) ==
    \A k \in DOMAIN graph_df :
        Abs(graph_df[j].Mileage - mileage)
            <= Abs(graph_df[k].Mileage - mileage)

\* row i of the economic-life table is at minimal distance from age_years
NearestYearRow(i, age_years) ==
    \A k \in DOMAIN econ_df :
        Abs(econ_df[i].AgeYears - age_years)
            <= Abs(econ_df[k].AgeYears - age_years)

\* C1: after any valuation run on a report with a registration date and
\* numeric fields, exactly one depreciation_method is recorded on the
\* report, whatever the origin, the manufacture age, the age in months and
\* the presence of base_price.
C1_ExactlyOneMethod ==
    (Returned /\ NumericPayload /\ report.registration_date # NoDate)
        => ( /\ report.depreciation_method # Unset
             /\ run.method_writes = 1 )

\* C7: for a local report with manufacture age < 14, ageMonths >= 36,
\* base_price > 0 and a loaded economic-life table, the final value is
\* base_price x (retentionPct / 100) rounded to 2 decimals, retentionPct
\* being the table value of the row nearest to ageMonths div 12.
C7_EconomicLifeValue ==
    ( /\ Returned
      /\ run.origin_type = "local"
      /\ run.prod_age < 14
      /\ report.registration_date # NoDate
      /\ run.age_months >= 36
      /\ report.base_price > 0
      /\ econ_df # NoTable )
    => ( /\ report.final_depreciated_value.kind = "amount"
         /\ \E i \in DOMAIN econ_df :
               /\ NearestYearRow(i, run.age_months \div 12)
               /\ Abs(100 * report.final_depreciated_value.amount
                      - report.base_price * econ_df[i].DepreciationPercent)
                    <= 50 )

C9_GraphEconomicPartition ==
    ( /\ Returned
      /\ run.origin_type = "local"
      /\ run.prod_age < 14 )
    => ( /\ ~(run.graph_calls > 0 /\ run.econ_calls > 0)
         /\ run.graph_calls > 0 => run.age_months < 36
         /\ run.econ_calls > 0 => run.age_months >= 36
         /\ run.branch # "none"
              => ( /\ (run.branch \in {"fresh", "graph"})
                        <=> run.age_months < 36
                   /\ (run.branch = "econ") <=> run.age_months >= 36 )
         /\ report.depreciation_method # Unset
              => ( /\ (report.depreciation_method = GraphMethod)
                        <=> run.age_months < 36
                   /\ (report.depreciation_method = EconomicLifeMethod)
                        <=> run.age_months >= 36 )
         /\ report.registration_date # NoDate
              => report.depreciation_method # Unset
         /\ ( /\ report.registration_date # NoDate
              /\ report.base_price > 0 )
              => run.branch # "none" )

\* C9 witness: at exactly 36 months the Economic Life Method is the value
\* computation and the recorded method, and the graph table is not read
C9_Witness ==
    /\ Returned
    /\ run.origin_type = "local"
    /\ run.prod_age < 14
    /\ run.age_months = 36
    /\ run.branch = "econ"
    /\ run.econ_calls > 0
    /\ run.graph_calls = 0
    /\ report.depreciation_method = EconomicLifeMethod

\* C10: for every report with manufacture age >= 14, local or imported,
\* the run selects the Face Value method and no other, does no table lookup
\* and no FX conversion, and values the report at face_value_average +
\* aftermarket_additions: an imported report in the run itself, a local
\* report in build_user_prompt, to which the run hands no other value.
C10_FaceValuePrecedence ==
    ( /\ pc = "returned"
      /\ run.op = "get_vehicle_data"
      /\ run.prod_age >= 14 )
    => ( /\ ~run.raised
         /\ report.depreciation_method = FaceValueMethod
         /\ run.method_writes = 1
         /\ report.final_depreciated_value
              = IF run.origin_type = "local"
                THEN NoValue
                ELSE Amount(report.face_value_average
                            + report.aftermarket_additions)
         /\ run.graph_calls = 0
         /\ run.econ_calls = 0
         /\ run.fx_calls = 0
         /\ ~run.converted )

----------------------------------------------------------------------------
(* Demand adjustment: properties *)

\* a call of build_user_prompt has returned
PromptReturned == prompt.op = "build_user_prompt" /\ ~prompt.raised

\* the key holds a number that the basis can use (a positive amount)
available(x) == x \notin {NoneV, JunkV} /\ x > 0

\* C18: with level = low, or an unrecognised level, which is treated as
\* low, value_after_demand equals value_before_demand and
\* demand_adjust_percent is 0, whatever percentage the input data carries.
C18_LowDemandNoAdjustment ==
    ( /\ PromptReturned
      /\ \/ prompt.data.demand_level = "low"
         \/ prompt.level_reply \notin {"unasked", "high", " Very High "} )
    => ( /\ prompt.data.demand_level = "low"
         /\ prompt.data.demand_adjust_percent = 0
         /\ prompt.data.value_after_demand = prompt.data.value_before_demand )

\* C18 witness: the data carry 7 percent, the valuer types an unrecognised
\* level, and the basis of 965.01 is reported unchanged
C18_Witness ==
    /\ PromptReturned
    /\ prompt.given.demand_adjust_percent = 7
    /\ prompt.level_reply = "medium"
    /\ prompt.data.demand_level = "low"
    /\ prompt.data.demand_adjust_percent = 0
    /\ prompt.data.value_before_demand = 96501
    /\ prompt.data.value_after_demand = 96501

\* the basis of a report that is not a face-value case: the final
\* depreciated value, else base_price x (retention_percent_used / 100),
\* else nothing, and then no adjustment is applied
PriorityBasis ==
    IF available(prompt.data.final_depreciated_value)
    THEN prompt.data.value_before_demand
            = prompt.data.final_depreciated_value
    ELSE IF available(prompt.data.base_price)
            /\ available(prompt.data.retention_percent_used)
    THEN prompt.data.value_before_demand
            = RoundHalfEven(prompt.data.base_price
                            * prompt.data.retention_percent_used, 10000)
    ELSE /\ prompt.data.value_before_demand = NoneV
         /\ prompt.data.value_after_demand = NoneV
         /\ prompt.data.demand_level = "low"
         /\ prompt.data.demand_adjust_percent = 0

\* C19 as stated: for every report the basis is the final depreciated
\* value when one is present; otherwise base_price x
\* (retention_percent_used / 100) when both are present; when neither is
\* available no adjustment is applied and both values are unavailable.
C19_BasisPriority == PromptReturned => PriorityBasis

\* C19 amended: under 14 years from manufacture the basis is the final
\* depreciated value when one is present; otherwise base_price x
\* (retention_percent_used / 100) when both are present; otherwise no
\* adjustment is applied and both values are unavailable.  From 14 years
\* on the basis is face_value_average + aftermarket_additions as typed at
\* the prompts, whatever computed fields are present.
C19_BasisPriorityUnder14 ==
    PromptReturned
    => IF manufacture_age_years(prompt.data, prompt.today) >= 14
       THEN prompt.data.value_before_demand
               = prompt.data.face_value_average
                 + prompt.data.aftermarket_additions
       ELSE PriorityBasis

\* C19 witness: a final depreciated value, a base price and a retention
\* are all present, and the final depreciated value is the basis
C19_Witness ==
    /\ PromptReturned
    /\ manufacture_age_years(prompt.data, prompt.today) < 14
    /\ prompt.data.final_depreciated_value = 96501
    /\ prompt.data.base_price = 1001
    /\ prompt.data.retention_percent_used = 9650
    /\ prompt.data.value_before_demand = 96501
    /\ prompt.basis_label = FinalValueBasis

----------------------------------------------------------------------------
(* Age arithmetic: properties *)

\* the step is a call of get_age_months on a registered report
AgeCallStep == ages # NoAges /\ ages'.op = "get_age_months"

\* C20: get_age_months is non-negative for every registration date,
\* including dates later than the evaluation date, and does not decrease
\* as the evaluation date advances with the registration date fixed.
C20_AgeNonNegativeMonotone ==
    [][ AgeCallStep
        => ( /\ ages'.age_months >= 0
             /\ ages.called => ages'.age_months >= ages.age_months ) ]_vars

----------------------------------------------------------------------------
(* Imported valuation: properties *)

\* a run has valued an imported report by the cost build-up
ImportedValued == Returned /\ run.branch = "imported"

\* C12: with ageYears = ageMonths div 12, the landed cost is
\* convert_to_kes(base_price) exactly when ageYears <= 7; when ageYears > 7
\* no conversion is made and the landed cost is base_price unchanged.
C12_CurrencyRule ==
    ImportedValued
    => IF run.age_months \div 12 <= 7
       THEN /\ run.converted
            /\ run.fx_calls = 1
            /\ run.landed = report.base_price * run.fx_ret
       ELSE /\ ~run.converted
            /\ run.fx_calls = 0
            /\ run.landed = report.base_price

\* C13: for every supplied profit_margin, a margin of exactly 0 included,
\* and every duty, total = (landed + duty) x (1 + profit_margin).
C13_ImportedTotal ==
    (ImportedValued /\ report.profit_margin # NoneV)
    => run.total100
          = (run.landed + float_or_0(report.duty))
            * (100 + report.profit_margin)

\* C14: if ageYears <= 7 and ageMonths < 3 the value is the total, rounded,
\* with no depreciation; otherwise the total is depreciated at the annual
\* rate 0.05 when mileage < 10,000, 0.075 when 10,000 <= mileage <= 20,000
\* and 0.10 when mileage > 20,000.
C14_DepreciationBands ==
    ImportedValued
    => IF run.age_months \div 12 <= 7 /\ run.age_months < 3
       THEN run.estimated_value = Amount(RoundHalfEven(run.total100, 100))
       ELSE /\ run.estimated_value.kind = "compound"
            /\ run.estimated_value.amount = run.total100
            /\ run.estimated_value.months = run.age_months
            /\ run.estimated_value.rate
                  = IF float_or_0(report.odo_reading) < 10000 THEN 50
                    ELSE IF float_or_0(report.odo_reading) <= 20000 THEN 75
                    ELSE 100

\* C14 witness: an imported report of 14 months at exactly 20,000 is
\* depreciated at 0.075 a year
C14_Witness ==
    /\ ImportedValued
    /\ run.age_months = 14
    /\ report.odo_reading = 20000
    /\ run.estimated_value.kind = "compound"
    /\ run.estimated_value.rate = 75
    /\ run.total100 > 0

----------------------------------------------------------------------------
(* OCR reconciliation: properties *)

\* try_multiple_ocr_sources has returned (ocr.best_text, ocr.best_score)
OcrReturned == ocr # NoOcr /\ ocr.op = "returned"

\* no image was fetched: the list had no non-empty URL, or every fetch failed
NothingFetched == \A i \in DOMAIN ocr.attempts : ~ocr.attempts[i].fetched

\* C15: when all candidate URLs are empty or every image fetch fails,
\* try_multiple_ocr_sources returns ("", 0), whatever the expected text is,
\* the empty expected text included.
C15_NothingFetchedNothingFound ==
    (OcrReturned /\ NothingFetched)
    => (ocr.best_text = << >> /\ ocr.best_score = 0)

\* C16: once a candidate has scored a perfect 10, no later candidate URL is
\* fetched or OCR-processed: an attempt that scored 10 is the last attempt.
C16_ShortCircuit ==
    OcrReturned
    => \A i \in DOMAIN ocr.attempts :
           ocr.attempts[i].score = 10 => i = Len(ocr.attempts)

\* the highest score among the attempts (0 when there is none)
MaxScore(attempts) ==
    CHOOSE s \in {0} \cup { attempts[i].score : i \in DOMAIN attempts } :
        \A i \in DOMAIN attempts : attempts[i].score <= s

\* the first attempt, in caller order, that scored s
FirstReaching(attempts, s) ==
    CHOOSE i \in DOMAIN attempts :
        /\ attempts[i].score = s
        /\ \A j \in DOMAIN attempts : attempts[j].score = s => i <= j

\* a step of the loop of one call
OcrLoopStep == ocr # NoOcr /\ ocr' # NoOcr /\ ocr'.op = "loop"

\* C17 as stated: the call returns the maximum score over all attempted
\* candidates with the text of the first candidate that reached that score,
\* and the running best score never decreases during the iteration.
C17_BestOfAttempts ==
    /\ [](OcrReturned /\ ocr.attempts # << >>
          => /\ ocr.best_score = MaxScore(ocr.attempts)
             /\ ocr.best_text
                  = ocr.attempts[FirstReaching(ocr.attempts, ocr.best_score)].text)
    /\ [][OcrLoopStep => ocr'.best_score >= ocr.best_score]_vars

\* C17, amended: the call returns the maximum score over all attempted
\* candidates; when that maximum is positive the text is that of the first
\* candidate that reached it (a later equal score never replaces it), when
\* no candidate scored above 0 the text is ""; the running best score never
\* decreases during the iteration.
C17_BestOfPositive ==
    /\ [](OcrReturned
          => /\ ocr.best_score = MaxScore(ocr.attempts)
             /\ ocr.best_text
                  = IF ocr.best_score > 0
                    THEN ocr.attempts[FirstReaching(ocr.attempts, ocr.best_score)].text
                    ELSE << >>)
    /\ [][OcrLoopStep => ocr'.best_score >= ocr.best_score]_vars

\* two candidates tie on the highest score with different texts, and the
\* earlier one is returned
C17_Witness ==
    /\ OcrReturned
    /\ Len(ocr.attempts) = 2
    /\ ocr.attempts[1].score = 7
    /\ ocr.attempts[2].score = 7
    /\ ocr.attempts[1].text = <<"A">>
    /\ ocr.attempts[2].text = <<"B">>
    /\ ocr.best_text = <<"A">>
    /\ ocr.best_score = 7

----------------------------------------------------------------------------
(* Face Value noninterference: properties *)

\* what the Face Value method gave in a run of get_vehicle_data
face_value_result(res) ==
    <<res.report.depreciation_method, res.report.final_depreciated_value,
      res.run.estimated_value>>

\* what the Face Value method gave in a call of build_user_prompt
face_value_basis(f) ==
    <<f.raised, f.basis_label, f.data.face_value_average,
      f.data.aftermarket_additions, f.data.value_before_demand,
      f.data.value_after_demand>>

\* C11: two reports of manufacture age >= 14 that agree on
\* face_value_average and aftermarket_additions and differ only in
\* base_price, duty and profit_margin get the same Face Value result, from
\* get_vehicle_data and from build_user_prompt.
C11_FaceValueNoninterference ==
    pair # NoPair
    => /\ face_value_result(pair.results[1])
            = face_value_result(pair.results[2])
       /\ pair.op = "prompted"
            => face_value_basis(pair.prompts[1])
                 = face_value_basis(pair.prompts[2])

\* the pricing fields of both reports are numbers or absent
NumericPricing ==
    \A i \in {1, 2} :
        /\ pair.payloads[i].base_price # JunkV
        /\ pair.payloads[i].duty # JunkV
        /\ pair.payloads[i].profit_margin # JunkV

\* with numeric pricing fields the two results agree
FaceValueAgreesOnNumbers ==
    (pair # NoPair /\ NumericPricing) => C11_FaceValueNoninterference

----------------------------------------------------------------------------
(* Local valuation: properties *)

\* C24: a local report of manufacture age < 14 with base_price > 0 whose
\* registration date is less than 3 months old gets final value
\* round(base_price, 2), whatever the mileage and the tables hold.
C24_FreshLocalKeepsBasePrice ==
    (/\ Returned
     /\ run.origin_type = "local"
     /\ run.prod_age < 14
     /\ report.base_price > 0
     /\ report.registration_date # NoDate
     /\ run.age_months < 3)
    => /\ run.estimated_value = Amount(report.base_price)
       /\ report.final_depreciated_value = Amount(report.base_price)

\* a two-month-old local vehicle with 25,000 km, tables loaded: the graph
\* diagnostics ran and the final value is still the base price
C24_Witness ==
    /\ Returned
    /\ run.origin_type = "local"
    /\ run.prod_age < 14
    /\ run.age_months = 2
    /\ report.odo_reading = 25000
    /\ graph_df # NoTable
    /\ run.graph_calls = 1
    /\ report.base_price = 100001
    /\ report.final_depreciated_value = Amount(100001)

----------------------------------------------------------------------------
(* Robustness of a run: properties *)

\* get_vehicle_data has ended, with a result or with an exception
RunEnded == pc = "returned" /\ run.op = "get_vehicle_data"

\* C21: no input terminates a valuation run: for every non-empty report
\* payload get_vehicle_data returns a result record and no exception
\* reaches its caller.
C21_RunAlwaysReturns == RunEnded => ~run.raised

\* base_price is missing, zero or not a number
NoBasePrice == report.base_price \in {NoneV, 0, JunkV}

\* C22: when base_price is missing, zero or non-numeric for a report that
\* is not a face-value report, the run records no final_depreciated_value,
\* estimated_value stays unset, and no exception reaches the caller.
C22_DeferredValuation ==
    (RunEnded /\ run.prod_age < 14 /\ NoBasePrice)
    => /\ ~run.raised
       /\ run.estimated_value = NoValue
       /\ report.final_depreciated_value = NoValue

\* the mileage is a number and the logbook engine number is not null: the
\* inputs on which no statement outside a try block raises
SafeInputs == report.odo_reading # JunkV /\ report.engine_no # NoText

\* on those inputs a missing base_price defers the valuation as C22 says
DeferredOnSafeInputs == (RunEnded /\ SafeInputs) => C22_DeferredValuation

\* C23: when the graph table or the economic-life table is missing,
\* apply_graph_method and apply_economic_life return the base price they
\* were given, for every mileage and age (and ask nothing), and the tables
\* stay missing for the rest of the process.
C23_MissingTablesIdentity ==
    /\ []((Returned /\ run.branch = "graph" /\ graph_df = NoTable)
          => /\ run.estimated_value = Amount(report.base_price)
             /\ run.usage = << >>)
    /\ []((Returned /\ run.branch = "econ" /\ econ_df = NoTable)
          => run.estimated_value = Amount(report.base_price))
    /\ [][graph_df' = graph_df /\ econ_df' = econ_df]_vars

\* an 85-month-old local vehicle with 25,000 km valued without tables
C23_Witness ==
    /\ Returned
    /\ econ_df = NoTable
    /\ run.branch = "econ"
    /\ run.econ_calls = 1
    /\ run.age_months = 85
    /\ report.odo_reading = 25000
    /\ report.final_depreciated_value = Amount(100001)

\* C28: within one run each of depreciation_method, retention_percent_used
\* and final_depreciated_value is assigned at most once.
C28_WriteOnce ==
    Returned
    => /\ run.method_writes <= 1
       /\ run.retention_writes <= 1
       /\ run.final_writes <= 1

\* C29: within one run the graph table lookup (apply_graph_method, with its
\* usage prompt) and the economic-life lookup are each performed at most
\* once.
C29_OneLookupPerRun ==
    Returned
    => /\ run.graph_calls <= 1
       /\ run.econ_calls <= 1
       /\ Len(run.usage) <= 1

----------------------------------------------------------------------------
(* get_fx_rates, several calls at a time: properties *)

\* the cache holds the rate map call i received and the time call i took
WroteCache(i) ==
    /\ calls[i].order > 0
    /\ fx_cache = [rates |-> calls[i].got, timestamp |-> calls[i].now]

\* C26: however concurrent get_fx_rates calls interleave, the cache holds
\* either no rates and no timestamp, or the rate map and the timestamp that
\* one single call wrote together, and that call is the last one that
\* wrote.
C26_WholeCacheFromOneCall ==
    /\ (writers = {})
         => fx_cache = [rates |-> NoRates, timestamp |-> NoTimestamp]
    /\ (writers # {})
         => \E i \in writers :
              /\ calls[i].order = Cardinality(writers)
              /\ WroteCache(i)

\* both calls missed the cache, both refreshed it with different rate maps
\* taken at different times, and both have returned
C26_Witness ==
    /\ writers = 1..MaxCalls
    /\ \A i \in 1..MaxCalls : calls[i].at = "done"
    /\ calls[1].got # calls[2].got
    /\ calls[1].now # calls[2].now
    /\ WroteCache(2)

\* C27: the timestamp of the cache never moves backwards.
C27_TimestampMonotonic ==
    [][fx_cache'.timestamp >= fx_cache.timestamp]_vars

----------------------------------------------------------------------------
(* calculate_imported_value on whole amounts: properties *)

\* the report of the worked example: registered 9 years ago, base price
\* 800,000 and duty 150,000 shillings, margin 10 percent, 25,000 km
ImportedExample ==
    /\ quote # NoQuote
    /\ quote.age_months = 9 * 12
    /\ quote.report.base_price = 800000
    /\ quote.report.duty = 150000
    /\ quote.report.profit_margin = 10
    /\ quote.report.odo_reading = 25000

\* the example makes no FX call and its total is 1,045,000.00
ExampleTotal ==
    /\ ~quote.raised
    /\ quote.fx_calls = 0
    /\ quote.total100 = 104500000

\* C25 as stated: the worked example ends at 404,087.98.
C25_ImportedExample ==
    ImportedExample => ExampleTotal /\ quote.value = 40408798

\* C25, amended: the worked example makes no FX call, totals 1,045,000 and
\* ends at 1,045,000 x 0.9^9 rounded to cents, which is 404,854.41.
C25_ImportedExampleAmended ==
    ImportedExample => ExampleTotal /\ quote.value = 40485441

C25_Witness ==
    ImportedExample /\ quote.value = 40485441

----------------------------------------------------------------------------
(* generate_summary: properties *)

\* the demand adjustment was applied to a basis value
DemandApplied ==
    /\ summary # NoSummary
    /\ summary.at = "returned"
    /\ summary.text = "summary"
    /\ summary.prompt.data.value_after_demand # NoneV

\* C30: in every request, with a fetched report or with override_data, the
\* demand adjustment is applied only after classification and the
\* depreciation step have run on the report.
C30_DemandAfterDepreciation ==
    DemandApplied
    => /\ summary.classified
       /\ summary.depreciated
       /\ summary.prompt.data.value_before_demand # NoneV

\* with a fetched report the demand adjustment follows get_vehicle_data
FetchedDemandAfterDepreciation ==
    (DemandApplied /\ summary.from = "report")
    => C30_DemandAfterDepreciation

\* a summary of a fetched report with high demand applied to its value
FetchedDemandApplied ==
    /\ DemandApplied
    /\ summary.from = "report"
    /\ summary.prompt.data.high_demand
    /\ summary.prompt.basis_label = FinalValueBasis

====
